---- MODULE Spec2Model ----
(***************************************************************************)
(* Drive gallery: the content-addressed ingestion pipeline                 *)
(* (backend/firebase.go, UploadFileToStorageAndFirestore), the catalog     *)
(* query engine (ListFilesFromFirestore) and the client-side pagination    *)
(* cursor cache of FolderPage (frontend/src/App.tsx).                      *)
(*                                                                         *)
(* Encoding.  Strings that the code only compares are small naturals:      *)
(* a folder label, a document id, a path segment.  The empty string is 0   *)
(* (EmptyLabel, NoFolder, EmptyToken).  A path is the sequence of its      *)
(* segments.  A download URL is the sequence MediaPrefix followed by the   *)
(* object path; the URL returned with an error is the empty sequence.      *)
(***************************************************************************)
EXTENDS Integers, Sequences, FiniteSets, TLC

\* ------------------------------------------------------------------ bounds
NumProcs == 2       \* request goroutines that may run ingest concurrently
MaxCalls == 2       \* ingest calls started in one behaviour
NumLabels == 1      \* distinct non-empty folder labels
NumContents == 2    \* distinct byte contents
NumNames == 1       \* distinct file names (last path segment)
MaxFolders == 2     \* folder documents that may be created
MaxFiles == 3       \* file documents that may be created
MaxTime == 2        \* largest clock reading
MaxFaults == 2      \* store round-trips that fail in one behaviour
MaxPageSize == 2    \* largest pageSize a list chain asks for
MaxPage == 5        \* largest page button clicked

EmptyLabel == 0
NoFolder == 0
EmptyToken == 0
MediaPrefix == 900
FolderSegBase == 100

Procs == 1..NumProcs
Labels == 0..NumLabels
Contents == 1..NumContents
\* "a.jpg" style paths <<n>> and "sub/a.jpg" style paths <<SubDir, n>>
SubDir == 50
RelPaths == {<<n>> : n \in 1..NumNames} \cup {<<SubDir, n>> : n \in 1..NumNames}
\* A MIME type is the sequence of its character codes, so that Firestore's
\* string order (byte-wise lexicographic) can be computed.
ImagePng == <<105, 109, 97, 103, 101, 47, 112, 110, 103>>   \* "image/png"
VideoMp4 == <<118, 105, 100, 101, 111, 47, 109, 112, 52>>   \* "video/mp4"
TextCsv == <<116, 101, 120, 116, 47, 99, 115, 118>>         \* "text/csv"
MimeTypes == {ImagePng, VideoMp4, TextCsv}
FolderIds == 1..MaxFolders
FileIds == 1..MaxFiles

VARIABLES
    files,      \* Firestore collection "files": set of FileMetadata
    folders,    \* Firestore collection "folders": set of FolderMetadata
    blobs,      \* Storage bucket: set of [path, content, contentType, public]
    now,        \* last reading of time.Now()
    calls,      \* per goroutine: the locals of UploadFileToStorageAndFirestore
    results,    \* history: what each finished ingest call returned and wrote
    overlapC,   \* history: contents for which two ingest calls overlapped
    overlapL,   \* history: labels for which two ingest calls overlapped
    faults      \* store failures injected so far

backendVars == <<files, folders, blobs, now, calls, results, overlapC, overlapL, faults>>

\* ------------------------------------------------------------ pure helpers
\* CalculateFileHash: SHA-256 rendered as hex; collision-free on Contents.
CalculateFileHash(content) == <<"sha256", content>>

\* attrs.MediaLink of the object at a path
MediaLink(path) == <<MediaPrefix>> \o path

\* storagePath := relativePath, prefixed by "<folderID>/" when folderID != ""
StoragePath(folderID, relativePath) ==
    IF folderID # NoFolder THEN <<FolderSegBase + folderID>> \o relativePath
    ELSE relativePath

\* fileName := the part of relativePath after the last "/"
FileName(relativePath) == relativePath[Len(relativePath)]

\* Where("name", "==", folderName) on the folders collection
FolderMatchesNone(folderName) == {}

FolderMatches(folderName) == {d \in folders : d.name = folderName}

\* Where("hash", "==", fileHash) on the files collection
HashMatchesNone(fileHash) == {}

HashMatches(fileHash) == {d \in files : d.hash = fileHash}

IdleCall ==
    [pc |-> "idle", folderName |-> 0, relativePath |-> <<>>, mimeType |-> <<>>,
     content |-> 0, folderID |-> NoFolder, storagePath |-> <<>>,
     downloadURL |-> <<>>, startedAt |-> 0, newFolder |-> 0, wrote |-> <<>>,
     failed |-> {}]

InFlight == {p \in Procs : calls[p].pc # "idle"}

\* The call of goroutine p returns (url, err): its locals are dropped and the
\* outcome is appended to the history, with the step that returned (c.pc) and
\* the steps whose store round-trip failed.
Return(p, c, ok, url, hit, newFile) ==
    /\ calls' = [calls EXCEPT ![p] = IdleCall]
    /\ results' = Append(results,
          [folderName |-> c.folderName, relativePath |-> c.relativePath,
           content |-> c.content, ok |-> ok, url |-> url, hit |-> hit,
           startedAt |-> c.startedAt, newFolder |-> c.newFolder,
           wrote |-> c.wrote, newFile |-> newFile,
           step |-> c.pc,
           failed |-> IF ok \/ c.pc = "blobDelete" THEN c.failed
                      ELSE c.failed \cup {c.pc}])

Fault(ok) == /\ (ok \/ faults < MaxFaults)
             /\ faults' = IF ok THEN faults ELSE faults + 1

\* ------------------------------------------------------------ ingest steps
\* Entry of UploadFileToStorageAndFirestore: hash the bytes, branch on folderName.
IngestStart(p, folderName, relativePath, mimeType, content) ==
    /\ calls[p].pc = "idle"
    /\ calls' = [calls EXCEPT ![p] =
          [IdleCall EXCEPT !.pc = IF folderName # EmptyLabel THEN "folderQuery"
                                  ELSE "hashQuery",
                           !.folderName = folderName,
                           !.relativePath = relativePath,
                           !.mimeType = mimeType,
                           !.content = content,
                           !.folderID = NoFolder,
                           !.startedAt = Len(results)]]
    /\ overlapC' = IF \E q \in InFlight : calls[q].content = content
                   THEN overlapC \cup {content} ELSE overlapC
    /\ overlapL' = IF \E q \in InFlight : calls[q].folderName = folderName
                   THEN overlapL \cup {folderName} ELSE overlapL
    /\ UNCHANGED <<files, folders, blobs, now, results, faults>>

\* 1. folder lookup: Where("name","==",folderName).Limit(1), iter.Next()
FolderQuery(p, ok) ==
    LET c == calls[p] IN
    /\ c.pc = "folderQuery"
    /\ Fault(ok)
    /\ IF ~ok
       THEN Return(p, c, FALSE, <<>>, FALSE, 0)
       ELSE /\ UNCHANGED results
            /\ IF FolderMatches(c.folderName) # {}
               THEN \E doc \in FolderMatches(c.folderName) :
                      calls' = [calls EXCEPT ![p].folderID = doc.id,
                                             ![p].pc = "hashQuery"]
               ELSE calls' = [calls EXCEPT ![p].pc = "folderSet"]
    /\ UNCHANGED <<files, folders, blobs, now, overlapC, overlapL>>

\* 1. folder creation: Doc(newFolderID).Set(newFolder)
FolderSetIfAbsent(p, ok, newFolderID, t) ==
    LET c == calls[p] IN
    /\ c.pc = "folderSet"
    /\ newFolderID \in FolderIds \ {d.id : d \in folders}
    /\ t \in now..MaxTime
    /\ Fault(ok)
    /\ IF ~ok
       THEN /\ Return(p, c, FALSE, <<>>, FALSE, 0)
            /\ UNCHANGED <<folders, now>>
       ELSE IF FolderMatches(c.folderName) # {}
       THEN /\ \E doc \in FolderMatches(c.folderName) :
                 calls' = [calls EXCEPT ![p].folderID = doc.id,
                                        ![p].newFolder = doc.id,
                                        ![p].pc = "hashQuery"]
            /\ UNCHANGED <<folders, now, results>>
       ELSE /\ folders' = folders \cup
                  {[id |-> newFolderID, name |-> c.folderName, createdAt |-> t]}
            /\ now' = t
            /\ calls' = [calls EXCEPT ![p].folderID = newFolderID,
                                      ![p].newFolder = newFolderID,
                                      ![p].pc = "hashQuery"]
            /\ UNCHANGED results
    /\ UNCHANGED <<files, blobs, overlapC, overlapL>>

FolderSet(p, ok, newFolderID, t) ==
    LET c == calls[p] IN
    /\ c.pc = "folderSet"
    /\ newFolderID \in FolderIds \ {d.id : d \in folders}
    /\ t \in now..MaxTime
    /\ Fault(ok)
    /\ IF ~ok
       THEN /\ Return(p, c, FALSE, <<>>, FALSE, 0)
            /\ UNCHANGED <<folders, now>>
       ELSE /\ folders' = folders \cup
                  {[id |-> newFolderID, name |-> c.folderName, createdAt |-> t]}
            /\ now' = t
            /\ calls' = [calls EXCEPT ![p].folderID = newFolderID,
                                      ![p].newFolder = newFolderID,
                                      ![p].pc = "hashQuery"]
            /\ UNCHANGED results
    /\ UNCHANGED <<files, blobs, overlapC, overlapL>>

\* 2. dedup lookup: Where("hash","==",fileHash).Limit(1), iter.Next()
HashQuery(p, ok) ==
    LET c == calls[p]
        fileHash == CalculateFileHash(c.content) IN
    /\ c.pc = "hashQuery"
    /\ Fault(ok)
    /\ IF ~ok
       THEN Return(p, c, FALSE, <<>>, FALSE, 0)
       ELSE IF HashMatches(fileHash) # {}
            THEN \E existingFile \in HashMatches(fileHash) :
                   Return(p, c, TRUE, existingFile.downloadUrl, TRUE, 0)
            ELSE /\ calls' = [calls EXCEPT ![p].pc = "blobWrite"]
                 /\ UNCHANGED results
    /\ UNCHANGED <<files, folders, blobs, now, overlapC, overlapL>>

\* 3. bucket.Object(storagePath).NewWriter: Write and Close
BlobWrite(p, ok) ==
    LET c == calls[p]
        storagePath == StoragePath(c.folderID, c.relativePath) IN
    /\ c.pc = "blobWrite"
    /\ Fault(ok)
    /\ IF ~ok
       THEN /\ Return(p, c, FALSE, <<>>, FALSE, 0)
            /\ UNCHANGED blobs
       ELSE /\ blobs' = {b \in blobs : b.path # storagePath} \cup
                  {[path |-> storagePath, content |-> c.content,
                    contentType |-> c.mimeType, public |-> FALSE]}
            /\ calls' = [calls EXCEPT ![p].storagePath = storagePath,
                                      ![p].wrote = storagePath,
                                      ![p].pc = "aclSet"]
            /\ UNCHANGED results
    /\ UNCHANGED <<files, folders, now, overlapC, overlapL>>

\* 3. ACL().Set(AllUsers, RoleReader): a failure is only logged
AclSetFatal(p, ok) ==
    LET c == calls[p] IN
    /\ c.pc = "aclSet"
    /\ Fault(ok)
    /\ IF ok
       THEN /\ blobs' = {IF b.path = c.storagePath THEN [b EXCEPT !.public = TRUE]
                         ELSE b : b \in blobs}
            /\ calls' = [calls EXCEPT ![p].pc = "attrs"]
            /\ UNCHANGED results
       ELSE /\ Return(p, c, FALSE, <<>>, FALSE, 0)
            /\ UNCHANGED blobs
    /\ UNCHANGED <<files, folders, now, overlapC, overlapL>>

AclSet(p, ok) ==
    LET c == calls[p] IN
    /\ c.pc = "aclSet"
    /\ Fault(ok)
    /\ blobs' = IF ok
                THEN {IF b.path = c.storagePath THEN [b EXCEPT !.public = TRUE]
                      ELSE b : b \in blobs}
                ELSE blobs
    /\ calls' = [calls EXCEPT ![p].pc = "attrs",
                              ![p].failed = IF ok THEN @ ELSE @ \cup {"aclSet"}]
    /\ UNCHANGED <<files, folders, now, results, overlapC, overlapL>>

\* 3. Attrs(): downloadURL := attrs.MediaLink
Attrs(p, ok) ==
    LET c == calls[p] IN
    /\ c.pc = "attrs"
    /\ Fault(ok)
    /\ IF ~ok
       THEN Return(p, c, FALSE, <<>>, FALSE, 0)
       ELSE /\ calls' = [calls EXCEPT ![p].downloadURL = MediaLink(c.storagePath),
                                      ![p].pc = "fileSet"]
            /\ UNCHANGED results
    /\ UNCHANGED <<files, folders, blobs, now, overlapC, overlapL>>

\* 4. Doc(fileDocID).Set(fileMetadata), CreatedAt: time.Now()
FileSet(p, ok, fileDocID, t) ==
    LET c == calls[p] IN
    /\ c.pc = "fileSet"
    /\ fileDocID \notin {d.id : d \in files}
    /\ t \in now..MaxTime
    /\ Fault(ok)
    /\ now' = t
    /\ IF ~ok
       THEN /\ calls' = [calls EXCEPT ![p].pc = "blobDelete",
                                      ![p].failed = @ \cup {"fileSet"}]
            /\ UNCHANGED <<files, results>>
       ELSE /\ files' = files \cup
                  {[id |-> fileDocID, name |-> FileName(c.relativePath),
                    mimeType |-> c.mimeType, storagePath |-> c.storagePath,
                    downloadUrl |-> c.downloadURL, folderId |-> c.folderID,
                    hash |-> CalculateFileHash(c.content), createdAt |-> t]}
            /\ Return(p, c, TRUE, c.downloadURL, FALSE, fileDocID)
    /\ UNCHANGED <<folders, blobs, overlapC, overlapL>>

\* 4. compensation: bucket.Object(storagePath).Delete, then return the Set error
BlobDeleteThenUrl(p, ok) ==
    LET c == calls[p] IN
    /\ c.pc = "blobDelete"
    /\ Fault(ok)
    /\ blobs' = IF ok THEN {b \in blobs : b.path # c.storagePath} ELSE blobs
    /\ Return(p, c, TRUE, c.downloadURL, FALSE, 0)
    /\ UNCHANGED <<files, folders, now, overlapC, overlapL>>

BlobDelete(p, ok) ==
    LET c == calls[p] IN
    /\ c.pc = "blobDelete"
    /\ Fault(ok)
    /\ blobs' = IF ok THEN {b \in blobs : b.path # c.storagePath} ELSE blobs
    /\ Return(p, [c EXCEPT !.failed = IF ok THEN @ ELSE @ \cup {"blobDelete"}],
              FALSE, <<>>, FALSE, 0)
    /\ UNCHANGED <<files, folders, now, overlapC, overlapL>>

\* ------------------------------------------- metadata correction and delete
VARIABLE admin  \* the call of DeleteFileFromStorageAndFirestore in progress,
                \* and history: the number and the outcome of the last
                \* correction or delete

MaxAdminOps == 2    \* corrections and deletes in one behaviour

\* "imagex/raw": inside the mimeType range of the image filter
ImagexRaw == <<105, 109, 97, 103, 101, 120, 47, 114, 97, 119>>

NoAdminOp == [op |-> "none", id |-> 0, mimeType |-> <<>>, path |-> <<>>, err |-> FALSE]

IdleAdmin == [n |-> 0, pc |-> "idle", storagePath |-> <<>>, firestoreDocID |-> 0,
              last |-> NoAdminOp]

\* UpdateFileMetadata: Doc(firestoreDocID).Update(mimeType); Update fails on a
\* document that does not exist.
UpdateFileMetadataUpsert(firestoreDocID, newMimeType, ok) ==
    /\ admin.pc = "idle"
    /\ Fault(ok)
    /\ files' = IF ~ok THEN files
                ELSE {d \in files : d.id # firestoreDocID} \cup
                     {[id |-> firestoreDocID, name |-> 0, mimeType |-> newMimeType,
                       storagePath |-> <<>>, downloadUrl |-> <<>>,
                       folderId |-> NoFolder, hash |-> <<>>, createdAt |-> now]}
    /\ admin' = [admin EXCEPT !.n = @ + 1,
                              !.last = [NoAdminOp EXCEPT !.op = "update",
                                                         !.id = firestoreDocID,
                                                         !.mimeType = newMimeType,
                                                         !.err = ~ok]]
    /\ UNCHANGED <<folders, blobs, now, calls, results, overlapC, overlapL>>

UpdateFileMetadata(firestoreDocID, newMimeType, ok) ==
    LET found == \E d \in files : d.id = firestoreDocID IN
    /\ admin.pc = "idle"
    /\ Fault(ok)
    /\ files' = IF ok /\ found
                THEN {IF d.id = firestoreDocID THEN [d EXCEPT !.mimeType = newMimeType]
                      ELSE d : d \in files}
                ELSE files
    /\ admin' = [admin EXCEPT !.n = @ + 1,
                              !.last = [NoAdminOp EXCEPT !.op = "update",
                                                         !.id = firestoreDocID,
                                                         !.mimeType = newMimeType,
                                                         !.err = ~(ok /\ found)]]
    /\ UNCHANGED <<folders, blobs, now, calls, results, overlapC, overlapL>>

\* DeleteFileFromStorageAndFirestore, 1: bucket.Object(storagePath).Delete;
\* deleting an object that does not exist is an error of the bucket.
DeleteObject(storagePath, firestoreDocID, ok) ==
    LET found == \E b \in blobs : b.path = storagePath IN
    /\ admin.pc = "idle"
    /\ Fault(ok)
    /\ blobs' = IF ok THEN {b \in blobs : b.path # storagePath} ELSE blobs
    /\ admin' = IF ok /\ found
                THEN [admin EXCEPT !.pc = "deleteDoc",
                                   !.storagePath = storagePath,
                                   !.firestoreDocID = firestoreDocID]
                ELSE [admin EXCEPT !.n = @ + 1,
                                   !.last = [NoAdminOp EXCEPT !.op = "delete",
                                                              !.id = firestoreDocID,
                                                              !.path = storagePath,
                                                              !.err = TRUE]]
    /\ UNCHANGED <<files, folders, now, calls, results, overlapC, overlapL>>

\* DeleteFileFromStorageAndFirestore, 2: Doc(firestoreDocID).Delete, return
DeleteDoc(ok) ==
    /\ admin.pc = "deleteDoc"
    /\ Fault(ok)
    /\ files' = IF ok THEN {d \in files : d.id # admin.firestoreDocID} ELSE files
    /\ admin' = [IdleAdmin EXCEPT !.n = admin.n + 1,
                                  !.last = [NoAdminOp EXCEPT !.op = "delete",
                                                             !.id = admin.firestoreDocID,
                                                             !.path = admin.storagePath,
                                                             !.err = ~ok]]
    /\ UNCHANGED <<folders, blobs, now, calls, results, overlapC, overlapL>>

\* ------------------------------------------------- catalog query engine
VARIABLE chain  \* a client of GET /api/files following nextPageToken

\* byte-wise lexicographic order of strings: a < b
RECURSIVE StrLess(_, _)
StrLess(a, b) ==
    IF b = <<>> THEN FALSE
    ELSE IF a = <<>> THEN TRUE
    ELSE IF a[1] # b[1] THEN a[1] < b[1]
    ELSE StrLess(Tail(a), Tail(b))

ImageLow == <<105, 109, 97, 103, 101, 47>>    \* "image/"
ImageHigh == <<105, 109, 97, 103, 102>>       \* "imagf"
VideoLow == <<118, 105, 100, 101, 111, 47>>   \* "video/"
VideoHigh == <<118, 105, 100, 101, 112>>      \* "videp"
FilterTypes == {"all", "image", "video"}

\* switch filterType: the mimeType range of "image" and of "video", else none
FilterAcceptsAll(filterType, mimeType) == TRUE

FilterAccepts(filterType, mimeType) ==
    CASE filterType = "image" ->
           ~StrLess(mimeType, ImageLow) /\ StrLess(mimeType, ImageHigh)
      [] filterType = "video" ->
           ~StrLess(mimeType, VideoLow) /\ StrLess(mimeType, VideoHigh)
      [] OTHER -> TRUE

\* OrderBy("createdAt", Desc), then the document name in the same direction
\* (the order Firestore gives a query whose cursor is a document snapshot):
\* a is returned before b
BeforeByTimeOnly(a, b) == a.createdAt > b.createdAt

Before(a, b) ==
    \/ a.createdAt > b.createdAt
    \/ a.createdAt = b.createdAt /\ a.id > b.id

RECURSIVE Ordered(_)
Ordered(S) ==
    IF S = {} THEN <<>>
    ELSE LET first == CHOOSE a \in S : \A b \in S \ {a} : Before(a, b)
         IN <<first>> \o Ordered(S \ {first})

\* Where("folderId","==",folderID) with the filter applied
Selected(folderID, filterType) ==
    {d \in files : d.folderId = folderID /\ FilterAccepts(filterType, d.mimeType)}

\* query.StartAfter(lastDocSnap): the documents ordered strictly after it
StartAfterInclusive(S, lastDocSnap) ==
    {d \in S : Before(lastDocSnap, d) \/ d.id = lastDocSnap.id}

StartAfter(S, lastDocSnap) == {d \in S : Before(lastDocSnap, d)}

Take(seq, n) == SubSeq(seq, 1, IF Len(seq) < n THEN Len(seq) ELSE n)

\* newLastDocID: the id of the last document iterated, "" when there was none
NewLastDocIDWhenMore(page, rest) ==
    IF Len(page) = 0 \/ Len(rest) = Len(page) THEN EmptyToken
    ELSE page[Len(page)].id

NewLastDocID(page, rest) ==
    IF Len(page) = 0 THEN EmptyToken ELSE page[Len(page)].id

ListError == [err |-> TRUE, files |-> <<>>, next |-> EmptyToken]

\* ListFilesFromFirestore(folderID, pageSize, lastDocID, filterType); ok is
\* whether the store answers the round-trips.
ListFilesFromFirestore(folderID, pageSize, lastDocID, filterType, ok) ==
    LET query == Selected(folderID, filterType)
        snaps == {d \in files : d.id = lastDocID}
    IN IF ~ok THEN ListError
       ELSE IF lastDocID # EmptyToken /\ snaps = {} THEN ListError
       ELSE LET from == IF lastDocID = EmptyToken THEN query
                        ELSE StartAfter(query, CHOOSE d \in snaps : TRUE)
                rest == Ordered(from)
                page == Take(rest, pageSize)
            IN [err |-> FALSE, files |-> page, next |-> NewLastDocID(page, rest)]

IdleChain ==
    [state |-> "idle", folderID |-> NoFolder, filterType |-> "all", pageSize |-> 0,
     cursor |-> EmptyToken, pages |-> <<>>, base |-> {}]

\* One request of the chain: filesHandler hands pageToken to
\* ListFilesFromFirestore and answers {data, nextPageToken}.
ChainFetch(c, ok) ==
    LET r == ListFilesFromFirestore(c.folderID, c.pageSize, c.cursor, c.filterType, ok)
    IN IF r.err THEN [c EXCEPT !.state = "failed"]
       ELSE [c EXCEPT !.state = IF r.next = EmptyToken THEN "done" ELSE "open",
                      !.cursor = r.next,
                      !.pages = Append(@, [asked |-> c.cursor, files |-> r.files,
                                           next |-> r.next])]

\* first page: no pageToken
ChainStart(folderID, pageSize, filterType, ok) ==
    /\ chain.state = "idle"
    /\ pageSize > 0
    /\ chain' = ChainFetch([IdleChain EXCEPT !.folderID = folderID,
                                             !.pageSize = pageSize,
                                             !.filterType = filterType,
                                             !.base = files], ok)
    /\ UNCHANGED backendVars

\* next page: pageToken = the nextPageToken of the previous answer
ChainNext(ok) ==
    /\ chain.state = "open"
    /\ chain' = ChainFetch(chain, ok)
    /\ UNCHANGED backendVars

\* ------------------------------------------- pagination cursor cache (UI)
VARIABLES
    folderId,            \* route parameter of FolderPage; NoFolder = not mounted
    filter,              \* useState 'all' | 'image' | 'video'
    currentPageToken,
    previousPageTokens,
    currentPageNumber,
    pageTokenMap,        \* Map<number, string>: a function on the cached pages
    estimatedTotalPages,
    isNavigating,
    query,               \* useQuery(['files', folderId, currentPageToken, pageSize, filter])
    walk,                \* the locals of a running navigateForwardTo
    lastOp               \* history: the last handler that ran

pagerVars == <<folderId, filter, currentPageToken, previousPageTokens,
               currentPageNumber, pageTokenMap, estimatedTotalPages, isNavigating,
               query, walk, lastOp>>

\* const pageSize = 20 in the source; scaled down so that a few records make
\* several pages (the cache never looks at the number).
pageSize == 1
InitialEstimatedPages == 5

Max(a, b) == IF a > b THEN a ELSE b

\* the pagination states of FolderPage as one value
Pager ==
    [filter |-> filter, currentPageToken |-> currentPageToken,
     previousPageTokens |-> previousPageTokens,
     currentPageNumber |-> currentPageNumber, pageTokenMap |-> pageTokenMap,
     estimatedTotalPages |-> estimatedTotalPages]

\* the useState initial values
InitialPager(f) ==
    [filter |-> f, currentPageToken |-> EmptyToken,
     previousPageTokens |-> <<EmptyToken>>, currentPageNumber |-> 1,
     pageTokenMap |-> (1 :> EmptyToken),
     estimatedTotalPages |-> InitialEstimatedPages]

MapSet(m, k, v) == [i \in DOMAIN m \cup {k} |-> IF i = k THEN v ELSE m[i]]

\* pageTokenMap.get(i) || ''
MapGetOrEmpty(m, i) == IF i \in DOMAIN m THEN m[i] ELSE EmptyToken

NoData == [files |-> <<>>, nextPageToken |-> EmptyToken]

IdleQuery == [status |-> "idle", token |-> EmptyToken, filter |-> "all", data |-> NoData]

NoWalk ==
    [active |-> FALSE, targetPage |-> 0, currentPage |-> 0,
     currentToken |-> EmptyToken, previousTokens |-> <<>>, tokenMap |-> <<>>,
     filter |-> "all", startPage |-> 0, startMap |-> <<>>, queries |-> 0]

\* data?.nextPageToken || '' : no data while the query loads or has failed
nextPageToken == IF query.status = "success" THEN query.data.nextPageToken
                 ELSE EmptyToken

\* the page count in the mutation without the look-ahead term
currentEstimatedPagesStatic == estimatedTotalPages

currentEstimatedPages ==
    Max(estimatedTotalPages,
        currentPageNumber + (IF nextPageToken # EmptyToken THEN 1 ELSE 0))

hasNextPage == nextPageToken # EmptyToken

hasPreviousPage ==
    \/ Len(previousPageTokens) > 1
    \/ Len(previousPageTokens) = 1 /\ currentPageToken # EmptyToken

\* the page-number buttons: Array.from({ length: currentEstimatedPages })
PageButtons == 1..currentEstimatedPages

\* the disabled attribute of page-number button pageNum
IsDisabled(pageNum) ==
    \/ pageNum = currentPageNumber
    \/ isNavigating /\ pageNum \notin DOMAIN pageTokenMap

\* The pagination controls are rendered only when the files query has data:
\* while it loads or after it failed FolderPage returns early.
ControlsShown == folderId # NoFolder /\ query.status = "success"

\* The query key follows the states: a new key starts a fetch.  (The
\* react-query cache of earlier keys is left out: a cached answer is stale at
\* once and is replaced by the refetch that the key change starts.)
Requery(st) ==
    IF query.status # "idle" /\ query.token = st.currentPageToken
                             /\ query.filter = st.filter
    THEN query
    ELSE [status |-> "loading", token |-> st.currentPageToken,
          filter |-> st.filter, data |-> NoData]

SetPager(st) ==
    /\ filter' = st.filter
    /\ currentPageToken' = st.currentPageToken
    /\ previousPageTokens' = st.previousPageTokens
    /\ currentPageNumber' = st.currentPageNumber
    /\ pageTokenMap' = st.pageTokenMap
    /\ estimatedTotalPages' = st.estimatedTotalPages
    /\ query' = Requery(st)

\* ---- pure state transformers of the handlers
\* handleNextPage
NextPageStateNoMap(st, token) ==
    IF token = EmptyToken THEN st
    ELSE [st EXCEPT !.previousPageTokens = Append(@, st.currentPageToken),
                    !.currentPageToken = token,
                    !.currentPageNumber = @ + 1]

NextPageStateSamePage(st, token) ==
    IF token = EmptyToken THEN st
    ELSE LET nextPageNum == st.currentPageNumber + 1 IN
         [st EXCEPT !.previousPageTokens = Append(@, st.currentPageToken),
                    !.currentPageToken = token,
                    !.currentPageNumber = nextPageNum,
                    !.pageTokenMap = MapSet(@, st.currentPageNumber, token),
                    !.estimatedTotalPages =
                        IF nextPageNum > @ THEN nextPageNum + 2 ELSE @]

NextPageState(st, token) ==
    IF token = EmptyToken THEN st
    ELSE LET nextPageNum == st.currentPageNumber + 1 IN
         [st EXCEPT !.previousPageTokens = Append(@, st.currentPageToken),
                    !.currentPageToken = token,
                    !.currentPageNumber = nextPageNum,
                    !.pageTokenMap = MapSet(@, nextPageNum, token),
                    !.estimatedTotalPages =
                        IF nextPageNum > @ THEN nextPageNum + 2 ELSE @]

\* handlePreviousPage, in the mutation that keeps the page number
PreviousPageStateKeepNumber(st) ==
    IF Len(st.previousPageTokens) = 0 THEN st
    ELSE LET n == Len(st.previousPageTokens) IN
         [st EXCEPT !.currentPageToken = st.previousPageTokens[n],
                    !.previousPageTokens = SubSeq(st.previousPageTokens, 1, n - 1)]

\* handlePreviousPage
PreviousPageState(st) ==
    IF Len(st.previousPageTokens) = 0 THEN st
    ELSE LET n == Len(st.previousPageTokens) IN
         [st EXCEPT !.currentPageToken = st.previousPageTokens[n],
                    !.previousPageTokens = SubSeq(st.previousPageTokens, 1, n - 1),
                    !.currentPageNumber = @ - 1]

\* the cached branch in the mutation that pushes the token of page i
RECURSIVE RebuildFromSamePage(_, _)
RebuildFromSamePage(m, pageNumber) ==
    IF pageNumber < 2 THEN <<EmptyToken>>
    ELSE IF pageNumber \in DOMAIN m
         THEN Append(RebuildFromSamePage(m, pageNumber - 1), MapGetOrEmpty(m, pageNumber))
         ELSE RebuildFromSamePage(m, pageNumber - 1)

\* handlePageClick, cached branch: [''] then, for i = 2..pageNumber with a
\* cached page i, the token of page i-1
RECURSIVE RebuildIfCached(_, _)
RebuildIfCached(m, pageNumber) ==
    IF pageNumber < 2 THEN <<EmptyToken>>
    ELSE IF pageNumber \in DOMAIN m
         THEN Append(RebuildIfCached(m, pageNumber - 1), MapGetOrEmpty(m, pageNumber - 1))
         ELSE RebuildIfCached(m, pageNumber - 1)

\* navigateBackwardTo: [''] then the token of page i-1 for i = 2..targetPage
RECURSIVE RebuildAll(_, _)
RebuildAll(m, targetPage) ==
    IF targetPage < 2 THEN <<EmptyToken>>
    ELSE Append(RebuildAll(m, targetPage - 1), MapGetOrEmpty(m, targetPage - 1))

CachedJumpState(st, pageNumber) ==
    [st EXCEPT !.currentPageToken = st.pageTokenMap[pageNumber],
               !.currentPageNumber = pageNumber,
               !.previousPageTokens = RebuildIfCached(st.pageTokenMap, pageNumber)]

BackwardState(st, targetPage) ==
    IF targetPage < 1 THEN st
    ELSE [st EXCEPT !.currentPageToken = MapGetOrEmpty(st.pageTokenMap, targetPage),
                    !.currentPageNumber = targetPage,
                    !.previousPageTokens = RebuildAll(st.pageTokenMap, targetPage)]

\* the filter buttons: setFilter and the reset of the pagination states
FilterResetKeepMap(st, f) ==
    [InitialPager(f) EXCEPT !.pageTokenMap = st.pageTokenMap]

FilterReset(st, f) == InitialPager(f)

\* ---- the handlers as steps
\* the user opens /folder/<id>: FolderPage is constructed
Mount(id) ==
    /\ folderId = NoFolder
    /\ id # NoFolder
    /\ folderId' = id
    /\ SetPager(InitialPager("all"))
    /\ lastOp' = [op |-> "mount", page |-> 0]
    /\ UNCHANGED <<isNavigating, walk>>

\* queryFn of the files query answers (ok = FALSE: the request failed)
FetchFiles(ok) ==
    /\ folderId # NoFolder
    /\ query.status = "loading"
    /\ LET r == ListFilesFromFirestore(folderId, pageSize, query.token, query.filter, ok)
       IN query' = IF r.err THEN [query EXCEPT !.status = "error"]
                   ELSE [query EXCEPT !.status = "success",
                           !.data = [files |-> r.files, nextPageToken |-> r.next]]
    /\ UNCHANGED <<folderId, filter, currentPageToken, previousPageTokens,
                   currentPageNumber, pageTokenMap, estimatedTotalPages,
                   isNavigating, walk, lastOp>>

HandleNextPage ==
    /\ ControlsShown
    /\ hasNextPage
    /\ SetPager(NextPageState(Pager, nextPageToken))
    /\ lastOp' = [op |-> "next", page |-> currentPageNumber,
                  shown |-> query.data.files]
    /\ UNCHANGED <<folderId, isNavigating, walk>>

HandlePreviousPage ==
    /\ ControlsShown
    /\ hasPreviousPage
    /\ SetPager(PreviousPageState(Pager))
    /\ lastOp' = [op |-> "previous", page |-> currentPageNumber]
    /\ UNCHANGED <<folderId, isNavigating, walk>>

\* a click on a page button in the mutation where neither the disabled
\* attribute nor the early return looks at isNavigating
HandlePageClickUnguarded(pageNumber) ==
    /\ ControlsShown
    /\ pageNumber \in PageButtons
    /\ pageNumber # currentPageNumber
    /\ UNCHANGED folderId
    /\ IF FALSE
       THEN \* if (pageNumber === currentPageNumber || isNavigating) return
            /\ lastOp' = [op |-> "ignored", page |-> currentPageNumber]
            /\ UNCHANGED <<filter, currentPageToken, previousPageTokens,
                           currentPageNumber, pageTokenMap, estimatedTotalPages,
                           isNavigating, query, walk>>
       ELSE IF pageNumber \in DOMAIN pageTokenMap
       THEN /\ SetPager(CachedJumpState(Pager, pageNumber))
            /\ lastOp' = [op |-> "jump", page |-> currentPageNumber,
                          shown |-> query.data.files]
            /\ UNCHANGED <<isNavigating, walk>>
       ELSE IF pageNumber > currentPageNumber
       THEN \* setIsNavigating(true); navigateForwardTo runs up to its first fetch
            /\ isNavigating' = TRUE
            /\ walk' = [active |-> TRUE, targetPage |-> pageNumber,
                        currentPage |-> currentPageNumber,
                        currentToken |-> currentPageToken,
                        previousTokens |-> previousPageTokens,
                        tokenMap |-> pageTokenMap, filter |-> filter,
                        startPage |-> currentPageNumber,
                        startMap |-> pageTokenMap, queries |-> 0]
            /\ lastOp' = [op |-> "walkStart", page |-> currentPageNumber]
            /\ UNCHANGED <<filter, currentPageToken, previousPageTokens,
                           currentPageNumber, pageTokenMap, estimatedTotalPages,
                           query>>
       ELSE \* navigateBackwardTo, then finally setIsNavigating(false)
            /\ SetPager(BackwardState(Pager, pageNumber))
            /\ lastOp' = [op |-> "backward", page |-> currentPageNumber]
            /\ UNCHANGED <<isNavigating, walk>>

\* a click on page button pageNumber (rendered for 1..currentEstimatedPages,
\* disabled for the current page and, while navigating, for uncached pages)
HandlePageClick(pageNumber) ==
    /\ ControlsShown
    /\ pageNumber \in PageButtons
    /\ ~IsDisabled(pageNumber)
    /\ UNCHANGED folderId
    /\ IF isNavigating
       THEN \* if (pageNumber === currentPageNumber || isNavigating) return
            /\ lastOp' = [op |-> "ignored", page |-> currentPageNumber]
            /\ UNCHANGED <<filter, currentPageToken, previousPageTokens,
                           currentPageNumber, pageTokenMap, estimatedTotalPages,
                           isNavigating, query, walk>>
       ELSE IF pageNumber \in DOMAIN pageTokenMap
       THEN /\ SetPager(CachedJumpState(Pager, pageNumber))
            /\ lastOp' = [op |-> "jump", page |-> currentPageNumber,
                          shown |-> query.data.files]
            /\ UNCHANGED <<isNavigating, walk>>
       ELSE IF pageNumber > currentPageNumber
       THEN \* setIsNavigating(true); navigateForwardTo runs up to its first fetch
            /\ isNavigating' = TRUE
            /\ walk' = [active |-> TRUE, targetPage |-> pageNumber,
                        currentPage |-> currentPageNumber,
                        currentToken |-> currentPageToken,
                        previousTokens |-> previousPageTokens,
                        tokenMap |-> pageTokenMap, filter |-> filter,
                        startPage |-> currentPageNumber,
                        startMap |-> pageTokenMap, queries |-> 0]
            /\ lastOp' = [op |-> "walkStart", page |-> currentPageNumber]
            /\ UNCHANGED <<filter, currentPageToken, previousPageTokens,
                           currentPageNumber, pageTokenMap, estimatedTotalPages,
                           query>>
       ELSE \* navigateBackwardTo, then finally setIsNavigating(false)
            /\ SetPager(BackwardState(Pager, pageNumber))
            /\ lastOp' = [op |-> "backward", page |-> currentPageNumber]
            /\ UNCHANGED <<isNavigating, walk>>

\* One turn of the loop of navigateForwardTo: the fetch of the page at
\* currentToken answers.  When the loop ends, the four states are set from the
\* locals and handlePageClick's finally clears isNavigating.
WalkStepLocalsNoHistory(w, r) ==
    IF r.err \/ r.next = EmptyToken THEN w
    ELSE [w EXCEPT !.tokenMap = MapSet(@, w.currentPage + 1, r.next),
                   !.currentPage = @ + 1,
                   !.currentToken = r.next]

WalkStepLocalsNoAdvance(w, r) ==
    IF r.err \/ r.next = EmptyToken THEN w
    ELSE [w EXCEPT !.previousTokens = Append(@, w.currentToken),
                   !.tokenMap = MapSet(@, w.currentPage + 1, r.next),
                   !.currentToken = r.next]

WalkStepLocals(w, r) ==
    IF r.err \/ r.next = EmptyToken THEN w
    ELSE [w EXCEPT !.previousTokens = Append(@, w.currentToken),
                   !.tokenMap = MapSet(@, w.currentPage + 1, r.next),
                   !.currentPage = @ + 1,
                   !.currentToken = r.next]

WalkStep(ok) ==
    /\ walk.active
    /\ LET r == ListFilesFromFirestore(folderId, pageSize, walk.currentToken,
                                       walk.filter, ok)
           w == [WalkStepLocals(walk, r) EXCEPT !.queries = @ + 1]
           stop == r.err \/ r.next = EmptyToken \/ w.currentPage >= w.targetPage
       IN IF stop
             THEN /\ SetPager([Pager EXCEPT !.currentPageToken = w.currentToken,
                                            !.currentPageNumber = w.currentPage,
                                            !.previousPageTokens = w.previousTokens,
                                            !.pageTokenMap = w.tokenMap])
                  /\ isNavigating' = FALSE
                  /\ walk' = NoWalk
                  /\ lastOp' = [op |-> "walk", page |-> walk.startPage,
                                targetPage |-> walk.targetPage,
                                filter |-> walk.filter,
                                cached |-> DOMAIN walk.startMap,
                                startMap |-> walk.startMap,
                                failed |-> r.err,
                                queries |-> w.queries]
             ELSE /\ walk' = w
                  /\ UNCHANGED <<filter, currentPageToken, previousPageTokens,
                                 currentPageNumber, pageTokenMap,
                                 estimatedTotalPages, isNavigating, query, lastOp>>
    /\ UNCHANGED folderId

\* ws.onmessage: invalidateQueries(['files', folderId]); the mounted files
\* query refetches under its current key and keeps its data meanwhile.  The
\* pagination states are not touched.
WsMessage(ok) ==
    /\ folderId # NoFolder
    /\ query.status \in {"success", "error"}
    /\ LET r == ListFilesFromFirestore(folderId, pageSize, query.token, query.filter, ok)
       IN query' = IF r.err THEN [query EXCEPT !.status = "error"]
                   ELSE [query EXCEPT !.status = "success",
                           !.data = [files |-> r.files, nextPageToken |-> r.next]]
    /\ lastOp' = [op |-> "ws", page |-> currentPageNumber]
    /\ UNCHANGED <<folderId, filter, currentPageToken, previousPageTokens,
                   currentPageNumber, pageTokenMap, estimatedTotalPages,
                   isNavigating, walk>>

FilterClick(f) ==
    /\ ControlsShown
    /\ SetPager(FilterReset(Pager, f))
    /\ lastOp' = [op |-> "filter", page |-> currentPageNumber]
    /\ UNCHANGED <<folderId, isNavigating, walk>>

PagerInit ==
    /\ folderId = NoFolder
    /\ filter = "all"
    /\ currentPageToken = EmptyToken
    /\ previousPageTokens = <<EmptyToken>>
    /\ currentPageNumber = 1
    /\ pageTokenMap = (1 :> EmptyToken)
    /\ estimatedTotalPages = InitialEstimatedPages
    /\ isNavigating = FALSE
    /\ query = IdleQuery
    /\ walk = NoWalk
    /\ lastOp = [op |-> "none", page |-> 0]

\* ------------------------------------------------------- HTTP handlers
VARIABLE http  \* the requests served so far and the answer to the last one

MaxRequests == 2

Methods == {"GET", "POST", "OPTIONS", "DELETE"}

StatusOK == 200
StatusBadRequest == 400
StatusMethodNotAllowed == 405
StatusInternalServerError == 500
Proceed == 0     \* the handler has passed its checks and calls the backend

NoMime == <<>>   \* a form value or JSON field that is absent or ""
NoPath == <<>>

OctetStream == <<97, 112, 112, 108, 105, 99, 97, 116, 105, 111, 110, 47, 111, 99,
                 116, 101, 116, 45, 115, 116, 114, 101, 97, 109>>

\* http.DetectContentType sniffs the leading bytes: the first sample of
\* Contents carries a PNG signature, the others no signature at all.
DetectContentType(content) == IF content = 1 THEN ImagePng ELSE OctetStream

NoRequest ==
    [handler |-> "none", method |-> "GET", folder |-> 0, relativePath |-> NoPath,
     id |-> 0, mimeType |-> NoMime, status |-> Proceed, called |-> FALSE]

IdleHttp == [n |-> 0, pc |-> "idle", last |-> NoRequest]

\* the checks of uploadFileHandler before it reads the file, in the mutation
\* without the check of relative_path
uploadFileChecksNoPath(method, parsed, hasFile, folderName, relativePath) ==
    IF method = "OPTIONS" THEN StatusOK
    ELSE IF method # "POST" THEN StatusMethodNotAllowed
    ELSE IF ~parsed THEN StatusBadRequest
    ELSE IF ~hasFile THEN StatusBadRequest
    ELSE IF folderName = EmptyLabel THEN StatusBadRequest
    ELSE Proceed

\* the checks of uploadFileHandler before it reads the file
uploadFileChecks(method, parsed, hasFile, folderName, relativePath) ==
    IF method = "OPTIONS" THEN StatusOK
    ELSE IF method # "POST" THEN StatusMethodNotAllowed
    ELSE IF ~parsed THEN StatusBadRequest
    ELSE IF ~hasFile THEN StatusBadRequest
    ELSE IF folderName = EmptyLabel THEN StatusBadRequest
    ELSE IF relativePath = NoPath THEN StatusBadRequest
    ELSE Proceed

\* the checks shared by filesHandler and folderNameHandler
folderPathChecks(method, folderIDComponent) ==
    IF method = "OPTIONS" THEN StatusOK
    ELSE IF method # "GET" THEN StatusMethodNotAllowed
    ELSE IF folderIDComponent = NoFolder THEN StatusBadRequest
    ELSE Proceed

\* the checks of updateFileMetadataHandler
updateFileMetadataChecks(method, decoded, id, mimeType) ==
    IF method = "OPTIONS" THEN StatusOK
    ELSE IF method # "POST" THEN StatusMethodNotAllowed
    ELSE IF ~decoded THEN StatusBadRequest
    ELSE IF id = 0 \/ mimeType = NoMime THEN StatusBadRequest
    ELSE Proceed

Answer(req, status, called) ==
    http' = [n |-> http.n + 1, pc |-> "idle",
             last |-> [req EXCEPT !.status = status, !.called = called]]

\* POST /api/upload/file: a request that passes the checks enters
\* UploadFileToStorageAndFirestore on goroutine 1 and is answered on return
uploadFileHandler(method, parsed, hasFile, folderName, relativePath, mimeType, content) ==
    LET status == uploadFileChecks(method, parsed, hasFile, folderName, relativePath)
        req == [NoRequest EXCEPT !.handler = "upload", !.method = method,
                                 !.folder = folderName,
                                 !.relativePath = relativePath,
                                 !.mimeType = mimeType]
    IN /\ http.pc = "idle"
       /\ InFlight = {}
       /\ IF status # Proceed
          THEN /\ Answer(req, status, FALSE)
               /\ UNCHANGED backendVars
          ELSE /\ IngestStart(1, folderName, relativePath,
                              IF mimeType = NoMime THEN DetectContentType(content)
                              ELSE mimeType, content)
               /\ http' = [n |-> http.n + 1, pc |-> "upload",
                           last |-> [req EXCEPT !.called = TRUE]]

\* uploadFileHandler after the backend call: 500 on error, else 200
uploadFileRespond ==
    /\ http.pc = "upload"
    /\ InFlight = {}
    /\ http' = [http EXCEPT !.pc = "idle",
                            !.last.status = IF results[Len(results)].ok THEN StatusOK
                                            ELSE StatusInternalServerError]
    /\ UNCHANGED backendVars

\* GET /api/files/<folderID>: pageSize defaults to 100, scaled to MaxPageSize
filesHandler(method, folderIDComponent, ok) ==
    LET status == folderPathChecks(method, folderIDComponent)
        req == [NoRequest EXCEPT !.handler = "files", !.method = method,
                                 !.folder = folderIDComponent]
    IN /\ http.pc = "idle"
       /\ IF status # Proceed
          THEN Answer(req, status, FALSE)
          ELSE Answer(req,
                      IF ListFilesFromFirestore(folderIDComponent, MaxPageSize,
                                                EmptyToken, "all", ok).err
                      THEN StatusInternalServerError ELSE StatusOK, TRUE)
       /\ UNCHANGED backendVars

UnknownFolder == 999   \* "Unknown Folder"

\* GetFolderNameFromFirestore: Doc(folderID).Get(); when Get fails without a
\* snapshot of an existing document the answer is "Unknown Folder" and no error
GetFolderNameFromFirestore(folderID, ok) ==
    IF ok /\ \E d \in folders : d.id = folderID
    THEN [err |-> FALSE, name |-> (CHOOSE d \in folders : d.id = folderID).name]
    ELSE [err |-> FALSE, name |-> UnknownFolder]

\* GET /api/folder-name/<folderID>
folderNameHandler(method, folderIDComponent, ok) ==
    LET status == folderPathChecks(method, folderIDComponent)
        req == [NoRequest EXCEPT !.handler = "folderName", !.method = method,
                                 !.folder = folderIDComponent]
    IN /\ http.pc = "idle"
       /\ IF status # Proceed
          THEN Answer(req, status, FALSE)
          ELSE Answer(req,
                      IF GetFolderNameFromFirestore(folderIDComponent, ok).err
                      THEN StatusInternalServerError ELSE StatusOK, TRUE)
       /\ UNCHANGED backendVars

\* POST /api/update/file-metadata with a JSON body {id, mime_type}
updateFileMetadataHandler(method, decoded, id, mimeType, ok) ==
    LET status == updateFileMetadataChecks(method, decoded, id, mimeType)
        req == [NoRequest EXCEPT !.handler = "update", !.method = method,
                                 !.id = id, !.mimeType = mimeType]
    IN /\ http.pc = "idle"
       /\ InFlight = {}
       /\ IF status # Proceed
          THEN /\ Answer(req, status, FALSE)
               /\ UNCHANGED <<backendVars, admin>>
          ELSE /\ UpdateFileMetadata(id, mimeType, ok)
               /\ Answer(req, IF admin'.last.err THEN StatusInternalServerError
                              ELSE StatusOK, TRUE)

\* --------------------------------------------------------- WebSocket hub
VARIABLES
    hub,     \* h.clients and the position of hub.run
    conn,    \* per connection: the client, its send channel and its two pumps
    net      \* callers blocked on h.broadcast, webhook requests, history

hubVars == <<hub, conn, net>>

NumConns == 2
MaxMessages == 2
MaxWebhooks == 1
SendCap == 1          \* make(chan []byte, 256), scaled

ConnIds == 1..NumConns
Messages == 1..MaxMessages

\* closes counts close(client.send); netClosed is conn.Close(); error is the
\* first failure of the connection, kept for the history
IdleConn ==
    [state |-> "free", send |-> <<>>, closed |-> FALSE, readPump |-> "off",
     writePump |-> "off", wrote |-> <<>>, closes |-> 0, netClosed |-> FALSE,
     error |-> "none"]

NoHubOp == [n |-> 0, op |-> "none", client |-> 0, was |-> FALSE]

HubInit ==
    /\ hub = [clients |-> {}, pc |-> "select", message |-> 0, todo |-> {}]
    /\ conn = [c \in ConnIds |-> IdleConn]
    /\ net = [calls |-> 0, waiting |-> {}, webhooks |-> 0, hookStatus |-> 0,
              owed |-> {}, panic |-> "none",
              audience |-> [m \in Messages |-> {}],
              enq |-> [m \in Messages |-> [c \in ConnIds |-> 0]],
              log |-> NoHubOp]

Logged(op, c, was) ==
    [net EXCEPT !.log = [n |-> net.log.n + 1, op |-> op, client |-> c, was |-> was]]

\* ServeWs: Upgrade, make the client, then block on h.register <- client
ServeWs(c, ok) ==
    /\ conn[c].state = "free"
    /\ \A d \in ConnIds : conn[d].state = "free" => c <= d
    /\ conn' = [conn EXCEPT ![c].state = IF ok THEN "register" ELSE "refused"]
    /\ UNCHANGED <<hub, net>>

\* hub.run, case client := <-h.register; ServeWs goes on to start the pumps
HubRegister(c) ==
    /\ hub.pc = "select"
    /\ conn[c].state = "register"
    /\ hub' = [hub EXCEPT !.clients = @ \cup {c}]
    /\ conn' = [conn EXCEPT ![c].state = "open", ![c].readPump = "reading",
                            ![c].writePump = "running"]
    /\ net' = Logged("register", c, c \in hub.clients)

\* readPump: ReadMessage fails because the peer is gone; the deferred
\* function blocks on h.unregister <- c
ReadError(c) ==
    /\ conn[c].readPump = "reading"
    /\ ~conn[c].netClosed
    /\ conn' = [conn EXCEPT ![c].readPump = "unregister",
                            ![c].error = IF @ = "none" THEN "read" ELSE @]
    /\ UNCHANGED <<hub, net>>

\* readPump: ReadMessage fails because writePump has closed the connection
ReadClosed(c) ==
    /\ conn[c].readPump = "reading"
    /\ conn[c].netClosed
    /\ conn' = [conn EXCEPT ![c].readPump = "unregister"]
    /\ UNCHANGED <<hub, net>>

\* hub.run, case client := <-h.unregister, in the mutation that leaves the
\* send channel open
HubUnregisterKeepOpen(c) ==
    /\ hub.pc = "select"
    /\ conn[c].readPump = "unregister"
    /\ hub' = [hub EXCEPT !.clients = @ \ {c}]
    /\ conn' = [conn EXCEPT ![c].readPump = "done", ![c].state = "closed",
                            ![c].netClosed = TRUE]
    /\ net' = Logged("unregister", c, c \in hub.clients)

\* hub.run, case client := <-h.unregister, in the mutation that closes the
\* send channel without looking the client up
HubUnregisterUnchecked(c) ==
    /\ hub.pc = "select"
    /\ conn[c].readPump = "unregister"
    /\ hub' = [hub EXCEPT !.clients = @ \ {c}]
    /\ conn' = [conn EXCEPT ![c].readPump = "done", ![c].state = "closed",
                            ![c].netClosed = TRUE,
                            ![c].closed = TRUE,
                            ![c].closes = @ + 1]
    /\ net' = Logged("unregister", c, c \in hub.clients)

\* hub.run, case client := <-h.unregister; readPump then closes the connection
HubUnregister(c) ==
    /\ hub.pc = "select"
    /\ conn[c].readPump = "unregister"
    /\ hub' = [hub EXCEPT !.clients = @ \ {c}]
    /\ conn' = [conn EXCEPT ![c].readPump = "done", ![c].state = "closed",
                            ![c].netClosed = TRUE,
                            ![c].closed = IF c \in hub.clients THEN TRUE ELSE @,
                            ![c].closes = IF c \in hub.clients THEN @ + 1 ELSE @]
    /\ net' = Logged("unregister", c, c \in hub.clients)

\* BroadcastMessage: the caller blocks on h.broadcast <- message
BroadcastMessage(m) ==
    /\ net.calls < MaxMessages
    /\ m = net.calls + 1
    /\ net' = [net EXCEPT !.calls = m, !.waiting = @ \cup {m}]
    /\ UNCHANGED <<hub, conn>>

\* the clients visited by "for client := range h.clients", in the mutation
\* that visits every connection
BroadcastTargetsAll == ConnIds

\* the clients visited by "for client := range h.clients"
BroadcastTargets == hub.clients

\* hub.run, case message := <-h.broadcast: enter the loop over h.clients
HubBroadcast(m) ==
    /\ hub.pc = "select"
    /\ m \in net.waiting
    /\ hub' = [hub EXCEPT !.pc = IF BroadcastTargets = {} THEN "select" ELSE "range",
                          !.message = m, !.todo = BroadcastTargets]
    /\ net' = [Logged("broadcast", 0, FALSE) EXCEPT !.waiting = @ \ {m},
                                                     !.audience[m] = hub.clients]
    /\ UNCHANGED conn

\* one iteration of the loop, in the mutation with a plain blocking send
HubSendBlocking(c) ==
    /\ hub.pc = "range"
    /\ c \in hub.todo
    /\ ~conn[c].closed
    /\ Len(conn[c].send) < SendCap
    /\ hub' = [hub EXCEPT !.todo = @ \ {c},
                          !.pc = IF hub.todo = {c} THEN "select" ELSE "range"]
    /\ conn' = [conn EXCEPT ![c].send = Append(@, hub.message)]
    /\ net' = [net EXCEPT !.enq[hub.message][c] = @ + 1]

\* one iteration of the loop: select { case client.send <- message: default: }
\* A send on a closed channel panics; so does the close of a closed channel.
HubSend(c) ==
    LET room == Len(conn[c].send) < SendCap
    IN /\ hub.pc = "range"
       /\ c \in hub.todo
       /\ hub' = [hub EXCEPT !.todo = @ \ {c},
                             !.pc = IF hub.todo = {c} THEN "select" ELSE "range",
                             !.clients = IF room THEN @ ELSE @ \ {c}]
       /\ conn' = IF conn[c].closed THEN conn
                  ELSE IF room THEN [conn EXCEPT ![c].send = Append(@, hub.message)]
                  ELSE [conn EXCEPT ![c].closed = TRUE, ![c].closes = @ + 1]
       /\ net' = IF conn[c].closed THEN [net EXCEPT !.panic = "send on closed channel"]
                 ELSE IF room THEN [net EXCEPT !.enq[hub.message][c] = @ + 1]
                 ELSE net

\* writePump: receive from c.send; a closed and drained channel ends the pump
\* with a close frame, a failed WriteMessage ends it too; the deferred
\* function closes the connection
WritePump(c, ok) ==
    /\ conn[c].writePump = "running"
    /\ IF conn[c].send # <<>>
       THEN /\ ok => ~conn[c].netClosed
            /\ conn' = [conn EXCEPT ![c].send = Tail(@),
                                 ![c].wrote = IF ok THEN Append(@, Head(conn[c].send))
                                                 ELSE @,
                                 ![c].writePump = IF ok THEN "running" ELSE "done",
                                 ![c].netClosed = IF ok THEN @ ELSE TRUE,
                                 ![c].error = IF ok \/ @ # "none" THEN @
                                              ELSE "write"]
       ELSE /\ conn[c].closed
            /\ ok
            /\ conn' = [conn EXCEPT ![c].writePump = "done", ![c].netClosed = TRUE]
    /\ UNCHANGED <<hub, net>>

\* webhookHandler, then backend.WebhookHandler: a POST is logged and
\* acknowledged and nothing else is done.  For the history, net.owed keeps who
\* was connected and how many messages BroadcastMessage had been given.
WebhookHandler(method) ==
    LET k == net.webhooks + 1
        status == IF method = "OPTIONS" THEN StatusOK
                  ELSE IF method # "POST" THEN StatusMethodNotAllowed
                  ELSE StatusOK
    IN /\ net.webhooks < MaxWebhooks
       /\ net' = [net EXCEPT !.webhooks = k,
                             !.hookStatus = status,
                             !.owed = IF method = "POST"
                                      THEN @ \cup {<<k, c, net.calls>> : c \in hub.clients}
                                      ELSE @]
       /\ UNCHANGED <<hub, conn>>

\* ------------------------------------------------------------------- Spec
BackendInit ==
    /\ files = {}
    /\ folders = {}
    /\ blobs = {}
    /\ now = 0
    /\ calls = [p \in Procs |-> IdleCall]
    /\ results = <<>>
    /\ overlapC = {}
    /\ overlapL = {}
    /\ faults = 0

vars == <<backendVars, chain, pagerVars, admin, http, hubVars>>

Init == /\ BackendInit /\ chain = IdleChain /\ PagerInit /\ admin = IdleAdmin
        /\ http = IdleHttp /\ HubInit

\* uuid.New(): an id no document of the collection carries yet.  Which unused
\* id is drawn is immaterial to the ingest steps, so the least one is taken.
FreshFolderId == CHOOSE i \in FolderIds \ {d.id : d \in folders} :
                   \A j \in FolderIds \ {d.id : d \in folders} : i <= j

UsedFileIds == {d.id : d \in files} \cup {results[i].newFile : i \in 1..Len(results)}

FreshFileId == CHOOSE i \in FileIds \ UsedFileIds :
                 \A j \in FileIds \ UsedFileIds : i <= j

\* time.Now(): the clock never runs backwards; two readings may coincide.
ClockReadings == {t \in {now, now + 1} : t <= MaxTime}

\* net/http serves each request on its own goroutine; goroutines are
\* interchangeable, so a new request takes the least idle one.
FreeProc(p) == /\ calls[p].pc = "idle"
               /\ \A q \in Procs : calls[q].pc = "idle" => p <= q

\* ---- Spec: concurrent ingest calls, every store round-trip may fail
Next ==
    \/ \E p \in Procs, l \in Labels, rp \in RelPaths, c \in Contents :
         /\ FreeProc(p)
         /\ Len(results) + Cardinality(InFlight) < MaxCalls
         /\ IngestStart(p, l, rp, ImagePng, c)
         /\ UNCHANGED <<chain, pagerVars, admin, http, hubVars>>
    \/ \E p \in Procs, ok \in BOOLEAN :
         FolderQuery(p, ok) /\ UNCHANGED <<chain, pagerVars, admin, http, hubVars>>
    \/ \E p \in Procs, ok \in BOOLEAN, t \in ClockReadings :
         FolderSet(p, ok, FreshFolderId, t) /\ UNCHANGED <<chain, pagerVars, admin, http, hubVars>>
    \/ \E p \in Procs, ok \in BOOLEAN :
         HashQuery(p, ok) /\ UNCHANGED <<chain, pagerVars, admin, http, hubVars>>
    \/ \E p \in Procs, ok \in BOOLEAN :
         BlobWrite(p, ok) /\ UNCHANGED <<chain, pagerVars, admin, http, hubVars>>
    \/ \E p \in Procs, ok \in BOOLEAN :
         AclSet(p, ok) /\ UNCHANGED <<chain, pagerVars, admin, http, hubVars>>
    \/ \E p \in Procs, ok \in BOOLEAN :
         Attrs(p, ok) /\ UNCHANGED <<chain, pagerVars, admin, http, hubVars>>
    \/ \E p \in Procs, ok \in BOOLEAN, t \in ClockReadings :
         FileSet(p, ok, FreshFileId, t) /\ UNCHANGED <<chain, pagerVars, admin, http, hubVars>>
    \/ \E p \in Procs, ok \in BOOLEAN :
         BlobDelete(p, ok) /\ UNCHANGED <<chain, pagerVars, admin, http, hubVars>>

Spec == Init /\ [][Next]_vars

\* ---- the uploads that fill the catalog of SpecList and SpecPager: one call
\* at a time, every round-trip answered, fresh bytes in every call
Upload(labels, mimes, readings, limit) ==
    \/ \E l \in labels, m \in mimes :
         /\ InFlight = {}
         /\ Cardinality(files) < limit
         /\ IngestStart(1, l, <<1>>, m, Len(results) + 1)
    \/ FolderQuery(1, TRUE)
    \/ \E t \in readings : FolderSet(1, TRUE, FreshFolderId, t)
    \/ HashQuery(1, TRUE)
    \/ BlobWrite(1, TRUE)
    \/ AclSet(1, TRUE)
    \/ Attrs(1, TRUE)
    \/ \E t \in readings : FileSet(1, TRUE, FreshFileId, t)

\* ---- SpecList: a catalog is filled, then one cursor chain is followed
ListFolders == {NoFolder} \cup {d.id : d \in folders}

NextList ==
    \/ /\ chain.state = "idle"
       /\ Upload(Labels, {ImagePng, VideoMp4}, ClockReadings, MaxFiles)
       /\ UNCHANGED <<chain, pagerVars, admin, http, hubVars>>
    \/ \E f \in ListFolders, n \in 1..MaxPageSize, ft \in FilterTypes, ok \in BOOLEAN :
         /\ InFlight = {}
         /\ ChainStart(f, n, ft, ok)
         /\ UNCHANGED <<pagerVars, admin, http, hubVars>>
    \/ \E ok \in BOOLEAN : ChainNext(ok) /\ UNCHANGED <<pagerVars, admin, http, hubVars>>

SpecList == Init /\ [][NextList]_vars

\* the clock has advanced between two uploads, as far as the model's clock goes
LatestReading == IF now < MaxTime THEN now + 1 ELSE now

\* ---- SpecPager: a catalog is filled, then FolderPage is used on a folder.
\* While a discovery walk is in flight the user only changes the filter.
NextPager ==
    \/ /\ folderId = NoFolder
       /\ Upload({1}, {ImagePng, VideoMp4}, {LatestReading}, MaxFiles)
       /\ UNCHANGED <<chain, pagerVars, admin, http, hubVars>>
    \/ \E d \in folders :
         InFlight = {} /\ Mount(d.id) /\ UNCHANGED <<backendVars, chain, admin, http, hubVars>>
    \/ \E ok \in BOOLEAN : FetchFiles(ok) /\ UNCHANGED <<backendVars, chain, admin, http, hubVars>>
    \/ ~walk.active /\ HandleNextPage /\ UNCHANGED <<backendVars, chain, admin, http, hubVars>>
    \/ ~walk.active /\ HandlePreviousPage /\ UNCHANGED <<backendVars, chain, admin, http, hubVars>>
    \/ \E n \in 1..MaxPage :
         ~walk.active /\ HandlePageClick(n) /\ UNCHANGED <<backendVars, chain, admin, http, hubVars>>
    \/ \E ok \in BOOLEAN : WalkStep(ok) /\ UNCHANGED <<backendVars, chain, admin, http, hubVars>>
    \/ \E f \in FilterTypes : FilterClick(f) /\ UNCHANGED <<backendVars, chain, admin, http, hubVars>>

SpecPager == Init /\ [][NextPager]_vars

\* ---- SpecLive: FolderPage is used on a folder while records are ingested
\* and deleted and change notifications arrive.  The viewer's steps are taken
\* between the calls of the catalog, whose intermediate steps they cannot see.
\* A request in flight is eventually answered; the user need not act.
CatalogQuiet == InFlight = {} /\ admin.pc = "idle"

NextLive ==
    \/ /\ admin.pc = "idle"
       /\ Len(results) < MaxFiles
       /\ Upload({1}, {ImagePng}, {LatestReading}, MaxFiles)
       /\ UNCHANGED <<chain, pagerVars, admin, http, hubVars>>
    \/ \E d \in files :
         /\ InFlight = {}
         /\ admin.n < MaxAdminOps
         /\ DeleteObject(d.storagePath, d.id, TRUE)
         /\ UNCHANGED <<chain, pagerVars, http, hubVars>>
    \/ DeleteDoc(TRUE) /\ UNCHANGED <<chain, pagerVars, http, hubVars>>
    \/ \E d \in folders :
         CatalogQuiet /\ Mount(d.id) /\ UNCHANGED <<backendVars, chain, admin, http, hubVars>>
    \/ CatalogQuiet /\ FetchFiles(TRUE) /\ UNCHANGED <<backendVars, chain, admin, http, hubVars>>
    \/ /\ CatalogQuiet /\ ~walk.active
       /\ HandleNextPage /\ UNCHANGED <<backendVars, chain, admin, http, hubVars>>
    \/ /\ CatalogQuiet /\ ~walk.active
       /\ HandlePreviousPage /\ UNCHANGED <<backendVars, chain, admin, http, hubVars>>
    \/ \E n \in 1..MaxPage :
         /\ CatalogQuiet /\ ~walk.active
         /\ HandlePageClick(n) /\ UNCHANGED <<backendVars, chain, admin, http, hubVars>>
    \/ CatalogQuiet /\ WalkStep(TRUE) /\ UNCHANGED <<backendVars, chain, admin, http, hubVars>>
    \/ CatalogQuiet /\ WsMessage(TRUE) /\ UNCHANGED <<backendVars, chain, admin, http, hubVars>>

SpecLive ==
    /\ Init /\ [][NextLive]_vars
    /\ WF_vars(CatalogQuiet /\ FetchFiles(TRUE) /\ UNCHANGED <<backendVars, chain, admin, http, hubVars>>)
    /\ WF_vars(CatalogQuiet /\ WalkStep(TRUE) /\ UNCHANGED <<backendVars, chain, admin, http, hubVars>>)
    /\ WF_vars(Upload({1}, {ImagePng}, {LatestReading}, MaxFiles)
                 /\ InFlight # {} /\ UNCHANGED <<chain, pagerVars, admin, http, hubVars>>)
    /\ WF_vars(DeleteDoc(TRUE) /\ UNCHANGED <<chain, pagerVars, http, hubVars>>)

\* ---- SpecCatalog: uploads, content-type corrections and deletes of catalog
\* entries; a delete is asked for a record and the object at its path
NextCatalog ==
    \/ /\ admin.pc = "idle"
       /\ Len(results) < MaxFiles
       /\ Upload({1}, {ImagePng, VideoMp4, ImagexRaw}, {LatestReading}, MaxFiles)
       /\ UNCHANGED <<chain, pagerVars, admin, http, hubVars>>
    \/ \E id \in FileIds, m \in MimeTypes, ok \in BOOLEAN :
         /\ InFlight = {}
         /\ admin.n < MaxAdminOps
         /\ UpdateFileMetadata(id, m, ok)
         /\ UNCHANGED <<chain, pagerVars, http, hubVars>>
    \/ \E d \in files, ok \in BOOLEAN :
         /\ InFlight = {}
         /\ admin.n < MaxAdminOps
         /\ DeleteObject(d.storagePath, d.id, ok)
         /\ UNCHANGED <<chain, pagerVars, http, hubVars>>
    \/ \E ok \in BOOLEAN : DeleteDoc(ok) /\ UNCHANGED <<chain, pagerVars, http, hubVars>>

SpecCatalog == Init /\ [][NextCatalog]_vars

\* ---- SpecHttp: requests to the four catalog endpoints; an upload that passes
\* the checks runs the ingest call, whose store round-trips may fail
NextHttp ==
    \/ \E method \in Methods, parsed \in BOOLEAN, hasFile \in BOOLEAN, l \in Labels,
          rp \in RelPaths \cup {NoPath}, m \in {NoMime, VideoMp4}, c \in Contents :
         /\ http.n < MaxRequests
         /\ uploadFileHandler(method, parsed, hasFile, l, rp, m, c)
         /\ UNCHANGED <<chain, pagerVars, admin, hubVars>>
    \/ \E ok \in BOOLEAN :
         FolderQuery(1, ok) /\ UNCHANGED <<chain, pagerVars, admin, http, hubVars>>
    \/ \E ok \in BOOLEAN, t \in ClockReadings :
         FolderSet(1, ok, FreshFolderId, t) /\ UNCHANGED <<chain, pagerVars, admin, http, hubVars>>
    \/ \E ok \in BOOLEAN :
         HashQuery(1, ok) /\ UNCHANGED <<chain, pagerVars, admin, http, hubVars>>
    \/ \E ok \in BOOLEAN :
         BlobWrite(1, ok) /\ UNCHANGED <<chain, pagerVars, admin, http, hubVars>>
    \/ \E ok \in BOOLEAN :
         AclSet(1, ok) /\ UNCHANGED <<chain, pagerVars, admin, http, hubVars>>
    \/ \E ok \in BOOLEAN :
         Attrs(1, ok) /\ UNCHANGED <<chain, pagerVars, admin, http, hubVars>>
    \/ \E ok \in BOOLEAN, t \in ClockReadings :
         FileSet(1, ok, FreshFileId, t) /\ UNCHANGED <<chain, pagerVars, admin, http, hubVars>>
    \/ \E ok \in BOOLEAN :
         BlobDelete(1, ok) /\ UNCHANGED <<chain, pagerVars, admin, http, hubVars>>
    \/ uploadFileRespond /\ UNCHANGED <<chain, pagerVars, admin, hubVars>>
    \/ \E method \in Methods, f \in {NoFolder} \cup FolderIds, ok \in BOOLEAN :
         /\ http.n < MaxRequests
         /\ filesHandler(method, f, ok)
         /\ UNCHANGED <<chain, pagerVars, admin, hubVars>>
    \/ \E method \in Methods, f \in {NoFolder} \cup FolderIds, ok \in BOOLEAN :
         /\ http.n < MaxRequests
         /\ folderNameHandler(method, f, ok)
         /\ UNCHANGED <<chain, pagerVars, admin, hubVars>>
    \/ \E method \in Methods, decoded \in BOOLEAN, id \in {0} \cup FileIds,
          m \in {NoMime, ImagePng}, ok \in BOOLEAN :
         /\ http.n < MaxRequests
         /\ updateFileMetadataHandler(method, decoded, id, m, ok)
         /\ UNCHANGED <<chain, pagerVars, hubVars>>

SpecHttp == Init /\ [][NextHttp]_vars

\* ---- SpecHub: connections come and go, BroadcastMessage is called, webhook
\* requests arrive.  The hub goroutine and the pumps keep running; a read on
\* a closed connection returns.
HubStep ==
    \/ \E c \in ConnIds : HubRegister(c)
    \/ \E c \in ConnIds : HubUnregister(c)
    \/ \E m \in Messages : HubBroadcast(m)
    \/ \E c \in ConnIds : HubSend(c)

NextHub ==
    \/ \E c \in ConnIds, ok \in BOOLEAN :
         ServeWs(c, ok) /\ UNCHANGED <<backendVars, chain, pagerVars, admin, http>>
    \/ \E c \in ConnIds :
         HubRegister(c) /\ UNCHANGED <<backendVars, chain, pagerVars, admin, http>>
    \/ \E c \in ConnIds :
         ReadError(c) /\ UNCHANGED <<backendVars, chain, pagerVars, admin, http>>
    \/ \E c \in ConnIds :
         ReadClosed(c) /\ UNCHANGED <<backendVars, chain, pagerVars, admin, http>>
    \/ \E c \in ConnIds :
         HubUnregister(c) /\ UNCHANGED <<backendVars, chain, pagerVars, admin, http>>
    \/ \E m \in Messages :
         BroadcastMessage(m) /\ UNCHANGED <<backendVars, chain, pagerVars, admin, http>>
    \/ \E m \in Messages :
         HubBroadcast(m) /\ UNCHANGED <<backendVars, chain, pagerVars, admin, http>>
    \/ \E c \in ConnIds :
         HubSend(c) /\ UNCHANGED <<backendVars, chain, pagerVars, admin, http>>
    \/ \E c \in ConnIds, ok \in BOOLEAN :
         WritePump(c, ok) /\ UNCHANGED <<backendVars, chain, pagerVars, admin, http>>
    \/ \E method \in Methods :
         WebhookHandler(method) /\ UNCHANGED <<backendVars, chain, pagerVars, admin, http>>

SpecHub ==
    /\ Init /\ [][NextHub]_vars
    /\ WF_vars(HubStep /\ UNCHANGED <<backendVars, chain, pagerVars, admin, http>>)
    /\ \A c \in ConnIds :
         /\ WF_vars((\E ok \in BOOLEAN : WritePump(c, ok))
                      /\ UNCHANGED <<backendVars, chain, pagerVars, admin, http>>)
         /\ WF_vars(ReadClosed(c)
                      /\ UNCHANGED <<backendVars, chain, pagerVars, admin, http>>)

\* ---- SpecInterleaved: one cursor chain is followed while files are ingested;
\* uuid.New() may draw any unused id
NextInterleaved ==
    \/ \E m \in {ImagePng, VideoMp4} :
         /\ InFlight = {}
         /\ Cardinality(files) < MaxFiles
         /\ IngestStart(1, 1, <<1>>, m, Len(results) + 1)
         /\ UNCHANGED <<chain, pagerVars, admin, http, hubVars>>
    \/ FolderQuery(1, TRUE) /\ UNCHANGED <<chain, pagerVars, admin, http, hubVars>>
    \/ \E t \in ClockReadings :
         FolderSet(1, TRUE, FreshFolderId, t) /\ UNCHANGED <<chain, pagerVars, admin, http, hubVars>>
    \/ HashQuery(1, TRUE) /\ UNCHANGED <<chain, pagerVars, admin, http, hubVars>>
    \/ BlobWrite(1, TRUE) /\ UNCHANGED <<chain, pagerVars, admin, http, hubVars>>
    \/ AclSet(1, TRUE) /\ UNCHANGED <<chain, pagerVars, admin, http, hubVars>>
    \/ Attrs(1, TRUE) /\ UNCHANGED <<chain, pagerVars, admin, http, hubVars>>
    \/ \E t \in ClockReadings, id \in FileIds \ UsedFileIds :
         FileSet(1, TRUE, id, t) /\ UNCHANGED <<chain, pagerVars, admin, http, hubVars>>
    \/ \E f \in ListFolders, n \in 1..MaxPageSize, ft \in FilterTypes, ok \in BOOLEAN :
         ChainStart(f, n, ft, ok) /\ UNCHANGED <<pagerVars, admin, http, hubVars>>
    \/ \E ok \in BOOLEAN : ChainNext(ok) /\ UNCHANGED <<pagerVars, admin, http, hubVars>>

SpecInterleaved == Init /\ [][NextInterleaved]_vars

\* ---- SpecBrowse: a folder of up to MaxBrowseFiles images is filled, then
\* FolderPage is used on it with every control the page offers, also while a
\* discovery walk is in flight.  A fetch in flight is eventually answered.
MaxBrowseFiles == 5
MaxBrowsePage == 7

NextBrowse ==
    \/ /\ folderId = NoFolder
       /\ InFlight = {}
       /\ Len(results) < MaxBrowseFiles
       /\ IngestStart(1, 1, <<1>>, ImagePng, Len(results) + 1)
       /\ UNCHANGED <<chain, pagerVars, admin, http, hubVars>>
    \/ FolderQuery(1, TRUE) /\ UNCHANGED <<chain, pagerVars, admin, http, hubVars>>
    \/ FolderSet(1, TRUE, FreshFolderId, LatestReading)
         /\ UNCHANGED <<chain, pagerVars, admin, http, hubVars>>
    \/ HashQuery(1, TRUE) /\ UNCHANGED <<chain, pagerVars, admin, http, hubVars>>
    \/ BlobWrite(1, TRUE) /\ UNCHANGED <<chain, pagerVars, admin, http, hubVars>>
    \/ AclSet(1, TRUE) /\ UNCHANGED <<chain, pagerVars, admin, http, hubVars>>
    \/ Attrs(1, TRUE) /\ UNCHANGED <<chain, pagerVars, admin, http, hubVars>>
    \/ FileSet(1, TRUE, Len(results) + 1, LatestReading)
         /\ UNCHANGED <<chain, pagerVars, admin, http, hubVars>>
    \/ \E d \in folders :
         InFlight = {} /\ Mount(d.id) /\ UNCHANGED <<backendVars, chain, admin, http, hubVars>>
    \/ \E ok \in BOOLEAN : FetchFiles(ok) /\ UNCHANGED <<backendVars, chain, admin, http, hubVars>>
    \/ HandleNextPage /\ UNCHANGED <<backendVars, chain, admin, http, hubVars>>
    \/ HandlePreviousPage /\ UNCHANGED <<backendVars, chain, admin, http, hubVars>>
    \/ \E n \in 1..MaxBrowsePage :
         HandlePageClick(n) /\ UNCHANGED <<backendVars, chain, admin, http, hubVars>>
    \/ \E ok \in BOOLEAN : WalkStep(ok) /\ UNCHANGED <<backendVars, chain, admin, http, hubVars>>
    \/ \E f \in FilterTypes : FilterClick(f) /\ UNCHANGED <<backendVars, chain, admin, http, hubVars>>

SpecBrowse ==
    /\ Init /\ [][NextBrowse]_vars
    /\ WF_vars((\E ok \in BOOLEAN : WalkStep(ok))
                 /\ UNCHANGED <<backendVars, chain, admin, http, hubVars>>)

\* ------------------------------------------------- properties of the ingestion
WithHash(content) == {f \in files : f.hash = CalculateFileHash(content)}

\* Two finished calls i, j of the history, j started after i returned, both
\* successful, both of the same bytes, no other call of those bytes overlapping.
Sequential(i, j) ==
    /\ i < j
    /\ results[j].startedAt >= i
    /\ results[i].ok /\ results[j].ok
    /\ results[i].content = results[j].content
    /\ results[i].content \notin overlapC

\* C1: a later ingest call of bytes that an earlier, completed call ingested
\* returns the earlier call's URL (whatever its folder label and relative
\* path), and exactly one FileRecord carries that content hash.
C1_DedupIdempotent ==
    \A i, j \in 1..Len(results) :
      Sequential(i, j) =>
        /\ results[j].url = results[i].url
        /\ Cardinality(WithHash(results[i].content)) = 1

C1_Witness ==
    \E i, j \in 1..Len(results) :
      /\ Sequential(i, j)
      /\ results[i].newFile # 0
      /\ results[j].hit
      /\ results[i].folderName # results[j].folderName
      /\ results[i].relativePath # results[j].relativePath

\* C2 (as stated): no two FileRecords ever carry the same contentHash, also
\* when ingest calls interleave.
C2_HashUnique ==
    \A f, g \in files : f.hash = g.hash => f.id = g.id

\* C2 (amended): the contentHash of bytes is carried by at most one FileRecord
\* as long as no two ingest calls of those bytes have overlapped in time.
C2_HashUniqueUnlessOverlap ==
    \A c \in Contents : c \notin overlapC => Cardinality(WithHash(c)) <= 1

\* Two overlapping calls of different bytes each wrote their record.
C2_Witness ==
    /\ Len(results) >= 2
    /\ overlapC = {}
    /\ overlapL # {}
    /\ \E i, j \in 1..Len(results) :
         /\ results[i].newFile # 0 /\ results[j].newFile # 0
         /\ results[i].content # results[j].content
         /\ results[j].startedAt < i

\* C5: a call whose content hash is already catalogued writes no blob, no
\* FileRecord and no FolderRecord.
C5_DuplicateChangesNothing ==
    \A i \in 1..Len(results) :
      results[i].hit =>
        /\ results[i].newFolder = 0
        /\ results[i].wrote = <<>>
        /\ results[i].newFile = 0

\* C6: calls under one non-empty label that never overlapped leave exactly one
\* FolderRecord of that name, and every FileRecord they wrote carries its id.
C6_FolderAutoCreation ==
    \A l \in Labels \ {EmptyLabel} :
      l \notin overlapL =>
        /\ Cardinality({d \in folders : d.name = l}) <= 1
        /\ \A i \in 1..Len(results) :
             (results[i].folderName = l /\ results[i].newFile # 0) =>
               \E d \in folders, f \in files :
                 /\ d.name = l
                 /\ f.id = results[i].newFile
                 /\ f.folderId = d.id

C6_Witness ==
    \E i, j \in 1..Len(results) :
      /\ i < j
      /\ results[i].folderName = results[j].folderName
      /\ results[i].folderName # EmptyLabel
      /\ results[i].folderName \notin overlapL
      /\ results[i].content # results[j].content
      /\ results[i].newFolder # 0 /\ results[i].newFile # 0
      /\ results[j].newFolder = 0 /\ results[j].newFile # 0
      /\ Cardinality({d \in folders : d.name = results[i].folderName}) = 1

\* the ids of the records written by the calls that returned so far
WrittenBy(rs) == {rs[i].newFile : i \in 1..Len(rs)} \ {0}

\* C14: a call whose FileRecord write failed after the blob was stored went on
\* to the compensation delete and returned an error with no URL, whether or
\* not that delete succeeded; it left no record: every record of the catalog
\* was written by a call that returned its URL.
C14_PersistFailure ==
    /\ \A p \in Procs :
         "fileSet" \in calls[p].failed => calls[p].pc = "blobDelete"
    /\ \A i \in 1..Len(results) :
         LET r == results[i] IN
         /\ "fileSet" \in r.failed =>
              /\ r.step = "blobDelete"
              /\ r.wrote # <<>>
              /\ ~r.ok
              /\ r.url = <<>>
              /\ r.newFile = 0
         /\ r.newFile # 0 => r.ok /\ r.url # <<>>
    /\ {d.id : d \in files} = WrittenBy(results)

\* the record write and the compensation delete of one call both failed
C14_Witness ==
    \E i \in 1..Len(results) :
      /\ {"fileSet", "blobDelete"} \subseteq results[i].failed
      /\ \E b \in blobs : b.path = results[i].wrote

\* C20: a call in which only the public-read grant failed still wrote its
\* FileRecord and returned the retrieval URL of the blob it stored.
C20_AclBestEffort ==
    /\ \A p \in Procs :
         "aclSet" \in calls[p].failed => calls[p].pc \in {"attrs", "fileSet", "blobDelete"}
    /\ \A i \in 1..Len(results) :
         LET r == results[i] IN
         r.failed = {"aclSet"} =>
           /\ r.ok
           /\ ~r.hit
           /\ r.url = MediaLink(r.wrote)
           /\ \E d \in files : /\ d.id = r.newFile
                                /\ d.downloadUrl = r.url
                                /\ d.storagePath = r.wrote

\* the grant failed, the blob stayed private, the call succeeded
C20_Witness ==
    \E i \in 1..Len(results) :
      /\ results[i].failed = {"aclSet"}
      /\ results[i].ok
      /\ \E b \in blobs : b.path = results[i].wrote /\ ~b.public

\* C26: two calls under one label whose folder lookups both found nothing
\* both wrote a FolderRecord: the two records have different ids and the same
\* name, and the FileRecords the calls wrote lie under the different ids.
C26_FolderRace ==
    \A i, j \in 1..Len(results) :
      LET a == results[i]
          b == results[j]
      IN (i # j /\ a.folderName = b.folderName /\ a.newFolder # 0 /\ b.newFolder # 0) =>
           /\ a.newFolder # b.newFolder
           /\ \A id \in {a.newFolder, b.newFolder} :
                \E d \in folders : d.id = id /\ d.name = a.folderName
           /\ \A r \in {a, b} :
                r.newFile # 0 =>
                  \E d \in files : d.id = r.newFile /\ d.folderId = r.newFolder

\* both calls succeeded, with different bytes, and left two folders of one name
C26_Witness ==
    \E i, j \in 1..Len(results) :
      /\ i # j
      /\ results[i].folderName = results[j].folderName
      /\ results[i].content # results[j].content
      /\ results[i].newFolder # 0 /\ results[j].newFolder # 0
      /\ results[i].newFile # 0 /\ results[j].newFile # 0
      /\ \E d, e \in files : d.folderId # e.folderId
      /\ Cardinality({d \in folders : d.name = results[i].folderName}) = 2

\* the blob a finished call wrote is still stored, and no record points at it
Orphaned(r) ==
    /\ r.wrote # <<>>
    /\ \E b \in blobs : b.path = r.wrote /\ b.content = r.content
    /\ \A d \in files : d.storagePath # r.wrote

\* C28: the blob of a failed call is left orphaned only if that call's
\* compensation delete failed.
C28_OrphanOnlyIfDeleteFailed ==
    \A i \in 1..Len(results) :
      (~results[i].ok /\ Orphaned(results[i])) => "blobDelete" \in results[i].failed

\* C29: every FileRecord has a blob stored at its storagePath.
C29_RecordHasBlob ==
    \A d \in files : \E b \in blobs : b.path = d.storagePath

\* C30: the bytes stored at a FileRecord's storagePath hash to its hash.
C30_BlobMatchesHash ==
    \A d \in files : \A b \in blobs :
      b.path = d.storagePath => CalculateFileHash(b.content) = d.hash

\* ------------------------------------------------ properties of the list chain
RECURSIVE Concat(_)
Concat(pages) ==
    IF pages = <<>> THEN <<>> ELSE pages[1].files \o Concat(Tail(pages))

Returned == Concat(chain.pages)

HasPrefix(str, prefix) ==
    Len(str) >= Len(prefix) /\ SubSeq(str, 1, Len(prefix)) = prefix

\* the top-level MIME category a type filter names
InCategory(filterType, mimeType) ==
    CASE filterType = "image" -> HasPrefix(mimeType, ImageLow)
      [] filterType = "video" -> HasPrefix(mimeType, VideoLow)
      [] OTHER -> TRUE

\* the records of the chain's folder under the chain's filter
Wanted == {d \in files : /\ d.folderId = chain.folderID
                         /\ InCategory(chain.filterType, d.mimeType)}

NoWritesSince == files = chain.base

\* C3: a page comes with an empty nextCursor exactly when no record of the
\* folder under the filter lies after its last record.
C3_EmptyCursorIffLastPage ==
    NoWritesSince =>
      \A i \in 1..Len(chain.pages) :
        LET pg == chain.pages[i]
            after == IF pg.files = <<>> THEN {}
                     ELSE {d \in Wanted :
                             LET last == pg.files[Len(pg.files)] IN
                             \/ d.createdAt < last.createdAt
                             \/ d.createdAt = last.createdAt /\ d.id < last.id}
        IN (pg.next = EmptyToken) <=> (after = {})

NoRepeats == \A i, j \in 1..Len(Returned) : i # j => Returned[i].id # Returned[j].id

Complete == chain.state = "done" => {d.id : d \in Wanted} = {Returned[i].id : i \in 1..Len(Returned)}

\* C4 (as stated): the chain returns every record exactly once, in strictly
\* descending createdAt order.
C4_StrictlyDescendingChain ==
    NoWritesSince =>
      /\ NoRepeats
      /\ Complete
      /\ \A i \in 1..Len(Returned) - 1 : Returned[i].createdAt > Returned[i + 1].createdAt

\* C4 (amended): the chain returns every record exactly once, in descending
\* createdAt order, records of equal createdAt in descending id order.
C4_DescendingChain ==
    NoWritesSince =>
      /\ NoRepeats
      /\ Complete
      /\ \A i \in 1..Len(Returned) - 1 :
           \/ Returned[i].createdAt > Returned[i + 1].createdAt
           \/ /\ Returned[i].createdAt = Returned[i + 1].createdAt
              /\ Returned[i].id > Returned[i + 1].id

\* three records fetched one per page, two of them with the same createdAt
C4_Witness ==
    /\ chain.state = "done"
    /\ chain.pageSize = 1
    /\ Len(Returned) = 3
    /\ \E i \in 1..2 : Returned[i].createdAt = Returned[i + 1].createdAt
    /\ \E i \in 1..2 : Returned[i].createdAt > Returned[i + 1].createdAt

\* ---------------------------------------------- properties of the cursor cache
HeldTokens ==
    {currentPageToken}
      \cup {pageTokenMap[i] : i \in DOMAIN pageTokenMap}
      \cup {previousPageTokens[i] : i \in 1..Len(previousPageTokens)}

\* the records a query of the mounted folder under filter f can return
Viewable(f) == {d \in files : d.folderId = folderId /\ InCategory(f, d.mimeType)}

\* C7: every cursor held by the cache was returned by a query under the
\* selected filter.  (A query returns as cursor the id of a record it selected,
\* so such a cursor is the id of a record the selected filter admits.)
C7_CursorsOfSelectedFilter ==
    \A t \in HeldTokens : t = EmptyToken \/ \E d \in Viewable(filter) : d.id = t

\* C8: right after a filter button is clicked the cache is in the page-1
\* state and the files query asks for the empty cursor under the new filter.
C8_FilterChangeResets ==
    lastOp.op = "filter" =>
      /\ currentPageToken = EmptyToken
      /\ previousPageTokens = <<EmptyToken>>
      /\ currentPageNumber = 1
      /\ pageTokenMap = (1 :> EmptyToken)
      /\ estimatedTotalPages = InitialEstimatedPages
      /\ query.token = EmptyToken
      /\ query.filter = filter

\* the filter was changed on a page beyond the first
C8_Witness ==
    /\ lastOp.op = "filter"
    /\ lastOp.page >= 3
    /\ filter # "all"
    /\ query.status = "success"

\* the number of pages of the mounted folder that hold records under filter f
RealPages(f) ==
    (Cardinality(Viewable(f)) + pageSize - 1) \div pageSize

\* k times: the files query of the current page answers, then handleNextPage
RECURSIVE AfterNexts(_, _)
AfterNexts(st, k) ==
    IF k = 0 THEN st
    ELSE AfterNexts(
           NextPageState(st,
             ListFilesFromFirestore(folderId, pageSize, st.currentPageToken,
                                    st.filter, TRUE).next),
           k - 1)

\* a walk from page 1, nothing else cached, just committed, every fetch answered
FreshWalkDone ==
    /\ lastOp.op = "walk"
    /\ lastOp.page = 1
    /\ lastOp.cached = {1}
    /\ ~lastOp.failed
    /\ lastOp.filter = filter

\* C9: a walk from page 1 to page n of a folder with at least n pages leaves
\* the cache as n-1 clicks on next from page 1 leave it, and shows the same
\* records.
C9_ForwardJumpEquivalence ==
    (FreshWalkDone /\ RealPages(filter) >= lastOp.targetPage) =>
      LET n == lastOp.targetPage
          byNext == AfterNexts(InitialPager(filter), n - 1)
      IN /\ currentPageNumber = byNext.currentPageNumber
         /\ currentPageNumber = n
         /\ currentPageToken = byNext.currentPageToken
         /\ previousPageTokens = byNext.previousPageTokens
         /\ \A i \in 1..n : /\ i \in DOMAIN pageTokenMap
                            /\ pageTokenMap[i] = byNext.pageTokenMap[i]
         /\ query.token = byNext.currentPageToken
         /\ query.status = "success" =>
              query.data.files =
                ListFilesFromFirestore(folderId, pageSize, byNext.currentPageToken,
                                       filter, TRUE).files

C9_Witness ==
    /\ FreshWalkDone
    /\ lastOp.targetPage = 3
    /\ RealPages(filter) >= 3
    /\ currentPageNumber = 3
    /\ query.status = "success"
    /\ Len(query.data.files) = pageSize

\* C10: a walk toward a page past the end stops on the last page that holds
\* records.
C10_WalkStopsOnLastRealPage ==
    (FreshWalkDone /\ RealPages(filter) < lastOp.targetPage) =>
      currentPageNumber = Max(1, RealPages(filter))

\* --------------------------------------- properties of the catalog entries
\* every page of the chain from the empty cursor, concatenated
RECURSIVE AllPages(_, _, _, _)
AllPages(folderID, n, filterType, cursor) ==
    LET r == ListFilesFromFirestore(folderID, n, cursor, filterType, TRUE)
    IN IF r.next = EmptyToken THEN r.files
       ELSE r.files \o AllPages(folderID, n, filterType, r.next)

ResultIds(folderID, n, filterType) ==
    LET all == AllPages(folderID, n, filterType, EmptyToken)
    IN {all[i].id : i \in 1..Len(all)}

InFolder(folderID) == {d \in files : d.folderId = folderID}

\* C15: under filter image (video) the pages of a folder hold exactly its
\* records of top-level MIME category image (video), under filter all every
\* record; image and video results together are the all result when the
\* folder holds no other category.
C15_FilterCorrectness ==
    \A folderID \in ListFolders, n \in 1..MaxPageSize :
      /\ \A filterType \in FilterTypes :
           ResultIds(folderID, n, filterType) =
             {d.id : d \in {e \in InFolder(folderID) :
                              InCategory(filterType, e.mimeType)}}
      /\ (\A d \in InFolder(folderID) :
            InCategory("image", d.mimeType) \/ InCategory("video", d.mimeType))
         => ResultIds(folderID, n, "image") \cup ResultIds(folderID, n, "video")
              = ResultIds(folderID, n, "all")

\* the step is a call of UpdateFileMetadata
Corrects == admin'.n = admin.n + 1 /\ admin'.last.op = "update"

\* C17: a step changes an existing FileRecord only if it is a content-type
\* correction of that record, and then only its mimeType; a correction leaves
\* every other record, the folders and the blobs alone, and for an id without
\* a record it returns an error and creates nothing.
C17_OnlyCorrectionMutates ==
    [][ /\ \A d \in files, e \in files' :
             (e.id = d.id /\ e # d) =>
               /\ Corrects
               /\ admin'.last.id = d.id
               /\ ~admin'.last.err
               /\ e = [d EXCEPT !.mimeType = admin'.last.mimeType]
        /\ Corrects =>
             /\ {d.id : d \in files'} = {d.id : d \in files}
             /\ folders' = folders
             /\ blobs' = blobs
             /\ (\A d \in files : d.id # admin'.last.id) =>
                  admin'.last.err /\ files' = files
             /\ ~admin'.last.err =>
                  \E e \in files' : /\ e.id = admin'.last.id
                                    /\ e.mimeType = admin'.last.mimeType
      ]_vars

\* a record's content type was corrected to another one, next to a second record
C17_Witness ==
    /\ admin.last.op = "update"
    /\ ~admin.last.err
    /\ Cardinality(files) >= 2
    /\ \E d \in files : /\ d.id = admin.last.id
                        /\ d.mimeType = TextCsv
                        /\ \E b \in blobs : b.path = d.storagePath /\ b.contentType # TextCsv

\* C18: when DeleteFileFromStorageAndFirestore has returned, the blob at the
\* path and the record of the id it was called with are both present or both
\* absent.
C18_DeleteTogether ==
    (admin.pc = "idle" /\ admin.last.op = "delete") =>
      ((\E b \in blobs : b.path = admin.last.path)
         <=> (\E d \in files : d.id = admin.last.id))

\* ------------------------------- properties of the cache under a live catalog
PageOneState ==
    /\ currentPageToken = EmptyToken
    /\ previousPageTokens = <<EmptyToken>>
    /\ currentPageNumber = 1
    /\ pageTokenMap = (1 :> EmptyToken)

\* C11: right after a change notification was handled the cursor cache is in
\* the page-1 state.
C11_NotificationInvalidates == lastOp.op = "ws" => PageOneState

\* the files query failed on a cursor whose record is gone
UnresolvedCursor ==
    /\ query.status = "error"
    /\ query.token # EmptyToken
    /\ \A d \in files : d.id # query.token

\* C12: once a list query has failed on a cursor that cannot be resolved, the
\* cache eventually is on page 1 with the empty cursor.
C12_FallsBackToPageOne ==
    UnresolvedCursor ~> (currentPageNumber = 1 /\ currentPageToken = EmptyToken)

\* a is ordered at or before b in the listing
AtOrBefore(a, b) == a.id = b.id \/ Before(a, b)

SeqRange(seq) == {seq[i] : i \in 1..Len(seq)}

\* page 2 is displayed and was reached from a displayed page 1
PageTwoAfterPageOne ==
    /\ query.status = "success"
    /\ currentPageNumber = 2
    /\ query.token = currentPageToken
    /\ lastOp.op \in {"next", "jump"}
    /\ lastOp.page = 1
    /\ lastOp.shown # <<>>
    /\ query.data.files # <<>>

\* C16: when page 1 and then page 2 were displayed, every record of the
\* folder ordered from the first record of page 1 to the last record of page 2
\* was shown on one of the two pages.
C16_NoRecordOmitted ==
    PageTwoAfterPageOne =>
      LET first == lastOp.shown[1]
          last == query.data.files[Len(query.data.files)]
      IN \A d \in Viewable(filter) :
           (AtOrBefore(first, d) /\ AtOrBefore(d, last)) =>
             d.id \in {e.id : e \in SeqRange(lastOp.shown) \cup SeqRange(query.data.files)}

\* ------------------------------------- further properties of the cursor cache
\* What a walk that a failed fetch ended does keep: every entry cached before
\* it is still cached, unchanged unless the walk passed its page; every page
\* the walk passed holds the cursor the walk's query of the page before
\* returned, which names a record, and the reached page is current.
FailedWalkKeepsDiscovered ==
    (lastOp.op = "walk" /\ lastOp.failed) =>
      /\ \A i \in DOMAIN lastOp.startMap :
           /\ i \in DOMAIN pageTokenMap
           /\ (i <= lastOp.page \/ i > currentPageNumber) =>
                pageTokenMap[i] = lastOp.startMap[i]
      /\ currentPageNumber >= lastOp.page
      /\ \A i \in (lastOp.page + 1)..currentPageNumber :
           /\ i \in DOMAIN pageTokenMap
           /\ pageTokenMap[i] =
                ListFilesFromFirestore(folderId, pageSize, pageTokenMap[i - 1],
                                       lastOp.filter, TRUE).next
           /\ \E d \in files : d.id = pageTokenMap[i]
      /\ currentPageNumber > lastOp.page =>
           currentPageToken = pageTokenMap[currentPageNumber]

\* C13: after a walk that a failed fetch ended, every entry cached
\* before the walk is unchanged, and every page up to the one reached holds
\* the cursor the walk's query of the page before returned, which still names
\* a record.
C13_FailedWalkKeepsCache ==
    (lastOp.op = "walk" /\ lastOp.failed) =>
      /\ \A i \in DOMAIN lastOp.startMap :
           i \in DOMAIN pageTokenMap /\ pageTokenMap[i] = lastOp.startMap[i]
      /\ currentPageNumber >= lastOp.page
      /\ \A i \in (lastOp.page + 1)..currentPageNumber :
           /\ i \in DOMAIN pageTokenMap
           /\ pageTokenMap[i] =
                ListFilesFromFirestore(folderId, pageSize, pageTokenMap[i - 1],
                                       lastOp.filter, TRUE).next
           /\ \E d \in files : d.id = pageTokenMap[i]
      /\ currentPageToken = pageTokenMap[currentPageNumber]

\* C19: page 1 is always cached, with the empty cursor.
C19_PageOneCached == 1 \in DOMAIN pageTokenMap /\ pageTokenMap[1] = EmptyToken

\* many pages cached, the filter changed before, a walk behind
C19_Witness ==
    /\ Cardinality(DOMAIN pageTokenMap) >= 3
    /\ lastOp.op = "walk"
    /\ filter # "all"
    /\ currentPageNumber >= 3
\* ---------------------------------------------- properties of the endpoints
\* an upload request that is complete but for its folder label
EmptyLabelUpload(req) ==
    /\ req.handler = "upload"
    /\ req.method = "POST"
    /\ req.folder = EmptyLabel
    /\ req.relativePath # NoPath

\* C21: an ingestion with an empty folder label succeeds: it is answered
\* with the retrieval URL, creates no FolderRecord and leaves a FileRecord
\* with the no-folder id whose blob lies at the unprefixed relative path.
C21_EmptyLabelIngests ==
    (http.pc = "idle" /\ EmptyLabelUpload(http.last)) =>
       /\ http.last.status \in {StatusOK, StatusInternalServerError}
       /\ http.last.called
       /\ http.last.status = StatusOK =>
            /\ results[Len(results)].newFolder = 0
            /\ \E d \in files : /\ d.folderId = NoFolder
                                /\ d.storagePath = http.last.relativePath

\* the requests the validation has to turn away
Invalid(req) ==
    CASE req.handler = "upload" ->
           \/ req.method \notin {"POST", "OPTIONS"}
           \/ req.method = "POST" /\ req.relativePath = NoPath
      [] req.handler \in {"files", "folderName"} ->
           \/ req.method \notin {"GET", "OPTIONS"}
           \/ req.method = "GET" /\ req.folder = NoFolder
      [] req.handler = "update" ->
           \/ req.method \notin {"POST", "OPTIONS"}
           \/ req.method = "POST" /\ (req.id = 0 \/ req.mimeType = NoMime)
      [] OTHER -> FALSE

\* C22: a request the validation has to turn away is answered with a 4xx
\* status by a step that calls no backend function and changes no store.
C22_RejectedLeavesCatalog ==
    [][(http'.n # http.n /\ Invalid(http'.last)) =>
          /\ http'.last.status \in 400..499
          /\ ~http'.last.called
          /\ UNCHANGED <<backendVars, admin>>]_vars

\* a catalog with a record in it, and the last request was turned away
C22_Witness ==
    /\ files # {}
    /\ http.n = MaxRequests
    /\ Invalid(http.last)
    /\ http.last.handler = "upload"
    /\ http.last.method = "POST"
    /\ http.last.status = StatusBadRequest

\* ------------------------------------------------ properties of the hub
\* C23: every notification POSTed to /webhook is eventually enqueued for
\* every client that was registered when it arrived.
C23_WebhookIsBroadcast ==
    \A k \in 1..MaxWebhooks, c \in ConnIds, n \in 0..MaxMessages :
      (<<k, c, n>> \in net.owed) ~>
         (\/ \E m \in Messages : m > n /\ net.enq[m][c] > 0
          \/ c \notin hub.clients)

\* C24: a processed register puts the client into h.clients; a processed
\* unregister of a registered client takes it out and closes its send channel;
\* an unregister of a client that is not registered changes nothing.
C24_RegisterUnregister ==
    [][\A c \in ConnIds :
         (net'.log.n # net.log.n /\ net'.log.client = c) =>
           /\ net'.log.op = "register" => c \in hub'.clients
           /\ (net'.log.op = "unregister" /\ c \in hub.clients) =>
                (c \notin hub'.clients /\ conn'[c].closed)
           /\ (net'.log.op = "unregister" /\ c \notin hub.clients) =>
                /\ hub'.clients = hub.clients
                /\ conn'[c].closed = conn[c].closed
                /\ conn'[c].send = conn[c].send]_vars

\* the hub has unregistered a client that was registered, while another
\* client stays registered
C24_Witness ==
    /\ net.log.op = "unregister"
    /\ net.log.was
    /\ conn[net.log.client].closed
    /\ net.log.client \notin hub.clients
    /\ hub.clients # {}

\* C25: a message given to BroadcastMessage is enqueued at most once to each
\* client, and only to clients registered when the hub took the message.
C25_AtMostOnce ==
    \A m \in Messages, c \in ConnIds :
      /\ net.enq[m][c] <= 1
      /\ net.enq[m][c] > 0 => c \in net.audience[m]

\* of two broadcasts, the first reached both clients and the second only the
\* one that was still registered
C25_Witness ==
    /\ \A c \in ConnIds : net.enq[1][c] = 1
    /\ \E c, d \in ConnIds : /\ net.enq[2][c] = 1
                             /\ net.enq[2][d] = 0
                             /\ d \notin net.audience[2]

\* ------------------------------ properties of a chain under live ingestion
\* the records the chain's folder held, under the chain's filter, when the
\* first page was fetched
WantedAtStart == {d \in chain.base : /\ d.folderId = chain.folderID
                                     /\ InCategory(chain.filterType, d.mimeType)}

\* C27: a chain followed while files are ingested returns no record twice,
\* and once finished it has returned every record the folder held at the
\* first fetch.
C27_ChainUnderIngestion ==
    /\ NoRepeats
    /\ chain.state = "done" =>
         \A d \in WantedAtStart : \E i \in 1..Len(Returned) : Returned[i].id = d.id

\* a finished chain of several pages that began on a non-empty folder and
\* also returned a record ingested after its first fetch
C27_Witness ==
    /\ chain.state = "done"
    /\ Len(chain.pages) >= 2
    /\ WantedAtStart # {}
    /\ \E i \in 1..Len(Returned) : Returned[i].id \notin {d.id : d \in chain.base}

\* ------------------------------------- further properties of the hub
\* C38: in the loop of a broadcast the hub never waits: a client whose send
\* buffer is full is closed and removed, any other client gets the message,
\* and the loop ends with the hub back at its select.
C38_BroadcastNeverBlocks ==
    /\ [][\A c \in ConnIds :
            (hub.pc = "range" /\ c \in hub.todo /\ c \notin hub'.todo) =>
              /\ IF Len(conn[c].send) >= SendCap
                 THEN /\ c \notin hub'.clients
                      /\ conn'[c].closed
                      /\ conn'[c].send = conn[c].send
                 ELSE /\ c \in hub'.clients
                      /\ conn'[c].send = Append(conn[c].send, hub.message)
              /\ \A d \in ConnIds \ {c} : conn'[d] = conn[d]
              /\ hub'.pc = IF hub'.todo = {} THEN "select" ELSE "range"]_vars
    /\ [](hub.pc = "range" =>
            (hub.todo # {} /\ \A c \in hub.todo : ENABLED HubSend(c)))

\* one broadcast reached a client with room and dropped one whose buffer was
\* full, and the hub is back at its select
C38_Witness ==
    /\ hub.pc = "select"
    /\ \E m \in Messages, c, d \in ConnIds :
         /\ {c, d} \subseteq net.audience[m]
         /\ net.enq[m][c] = 1
         /\ net.enq[m][d] = 0
         /\ conn[d].closed
         /\ conn[d].readPump = "reading"

\* C39: no send channel is closed twice, and the hub sends on no closed
\* channel: a registered client's channel is open.
C39_NoDoubleClose ==
    /\ net.panic = "none"
    /\ \A c \in ConnIds :
         /\ conn[c].closes <= 1
         /\ c \in hub.clients => ~conn[c].closed

\* readPump has unregistered a client the hub had already dropped
C39_Witness ==
    /\ net.log.op = "unregister"
    /\ ~net.log.was
    /\ conn[net.log.client].closes = 1
    /\ conn[net.log.client].readPump = "done"

\* C40: a client whose connection has failed is eventually out of h.clients
\* with both pumps returned.
C40_FailedClientLeaves ==
    \A c \in ConnIds :
      (conn[c].error # "none") ~>
         (/\ c \notin hub.clients
          /\ conn[c].readPump = "done"
          /\ conn[c].writePump = "done")

\* a client whose write failed has left the hub and both pumps are done
C40_Witness ==
    \E c \in ConnIds :
      /\ conn[c].error = "write"
      /\ c \notin hub.clients
      /\ conn[c].readPump = "done"
      /\ conn[c].writePump = "done"

\* ------------------------------------- properties of the page controls
\* C31: the cached pages are 1..k for some k >= 1, the current page is one
\* of them and the current cursor is its cached cursor; the backward branch
\* of a jump never runs.
C31_VisitedPagesCached ==
    /\ \E k \in 1..(MaxBrowseFiles + 2) : DOMAIN pageTokenMap = 1..k
    /\ currentPageNumber \in DOMAIN pageTokenMap
    /\ currentPageToken = pageTokenMap[currentPageNumber]
    /\ lastOp.op # "backward"

\* several pages are cached and the current page is an inner one
C31_Witness ==
    /\ DOMAIN pageTokenMap = 1..4
    /\ currentPageNumber = 2
    /\ lastOp.op = "jump"

\* n-1 handleNextPage calls from the initial states, with the cached cursors
\* as the answers of the queries
RECURSIVE ReplayNexts(_, _, _)
ReplayNexts(st, m, n) ==
    IF \/ st.currentPageNumber >= n
       \/ MapGetOrEmpty(m, st.currentPageNumber + 1) = EmptyToken
    THEN st
    ELSE ReplayNexts(NextPageState(st, m[st.currentPageNumber + 1]), m, n)

\* C32: after a jump to a cached page n the previous-history is the one n-1
\* consecutive next steps from page 1 build: the seed, then the cursors of
\* pages 1..n-1.
C32_JumpRebuildsHistory ==
    lastOp.op = "jump" =>
      /\ Len(previousPageTokens) = currentPageNumber
      /\ previousPageTokens =
           ReplayNexts(InitialPager(filter), pageTokenMap, currentPageNumber).previousPageTokens
      /\ previousPageTokens =
           <<EmptyToken>> \o [i \in 1..(currentPageNumber - 1) |-> pageTokenMap[i]]

\* a jump from page 1 forward to the cached page 4
C32_Witness ==
    /\ lastOp.op = "jump"
    /\ lastOp.page = 1
    /\ currentPageNumber = 4

\* C33: the previous button is enabled exactly on pages above 1; a previous
\* step goes one page down, to the cursor cached for that page; the page
\* number is never below 1.
C33_PreviousStep ==
    /\ [](currentPageNumber >= 1 /\ (hasPreviousPage <=> currentPageNumber > 1))
    /\ [][(lastOp'.op = "previous" /\ lastOp' # lastOp) =>
            /\ currentPageNumber' = currentPageNumber - 1
            /\ currentPageNumber' >= 1
            /\ currentPageToken' = pageTokenMap[currentPageNumber - 1]]_vars

\* a previous step from page 3 onto page 2
C33_Witness ==
    /\ lastOp.op = "previous"
    /\ lastOp.page = 3
    /\ currentPageNumber = 2

\* C34: while a walk runs no other walk starts: the running walk keeps its
\* start and its target until it ends, and isNavigating marks it.
C34_OneWalkAtATime ==
    /\ [](isNavigating <=> walk.active)
    /\ [][(walk.active /\ walk'.active) =>
            /\ walk'.targetPage = walk.targetPage
            /\ walk'.startPage = walk.startPage
            /\ walk'.startMap = walk.startMap
            /\ walk'.queries \in {walk.queries, walk.queries + 1}]_vars

\* a click on a page button was turned away while a walk was running
C34_Witness ==
    /\ walk.active
    /\ walk.queries >= 1
    /\ lastOp.op = "ignored"

\* C35: a click on an enabled page button makes that page current or starts
\* a walk toward it, also while a walk is running.
C35_EnabledButtonActs ==
    [][\A n \in 1..MaxBrowsePage :
         (ControlsShown /\ n \in PageButtons /\ ~IsDisabled(n) /\ HandlePageClick(n)) =>
            \/ currentPageNumber' = n
            \/ walk'.active /\ walk'.targetPage = n]_vars

\* C36: a walk makes at most (target page - starting page) queries, and when
\* it ends, by reaching the target, running out of pages or a failed query,
\* isNavigating is cleared; every walk ends.
C36_WalkTerminates ==
    /\ [](walk.active => walk.queries < walk.targetPage - walk.startPage)
    /\ [](lastOp.op = "walk" => lastOp.queries <= lastOp.targetPage - lastOp.page)
    /\ [][(walk.active /\ ~walk'.active) => ~isNavigating']_vars
    /\ walk.active ~> ~isNavigating

\* a walk of several queries was ended by a failed query
C36_Witness ==
    /\ lastOp.op = "walk"
    /\ lastOp.failed
    /\ lastOp.queries >= 2
    /\ ~isNavigating

\* C37: the page buttons are 1..max(estimatedTotalPages, currentPageNumber
\* + 1 if the shown page came with a nextPageToken): never fewer than the
\* current page, and one more when a next page is known.
C37_PageButtonCount ==
    /\ Cardinality(PageButtons) =
         Max(estimatedTotalPages,
             IF query.status = "success" /\ query.data.nextPageToken # EmptyToken
             THEN currentPageNumber + 1 ELSE currentPageNumber)
    /\ Cardinality(PageButtons) >= currentPageNumber
    /\ hasNextPage => Cardinality(PageButtons) >= currentPageNumber + 1

\* the look-ahead term decides: page 5 is shown with a next page known
C37_Witness ==
    /\ ControlsShown
    /\ hasNextPage
    /\ currentPageNumber = estimatedTotalPages
    /\ Cardinality(PageButtons) = currentPageNumber + 1

====
